---- MODULE Spec2Model ----
(***************************************************************************)
(* Medieval RTS: the simulation tick, the command surface, the economy     *)
(* and the AI opponent, as state machines.                                 *)
(*                                                                         *)
(* Geometry.  Entities live on one horizontal line of the map (all y are   *)
(* equal), so sqrt(dx^2 + dy^2) is |dx| exactly.  Positions are integers   *)
(* in hundredths of a map unit, time is counted in frames of 1/60 s; with  *)
(* these units every product speed * multiplier * dt * 60 of the source    *)
(* is an integer.                                                          *)
(*                                                                         *)
(* Objects.  Units and buildings are heap objects addressed by uid; the    *)
(* lists Game.units and Game.buildings hold uids.  An object that has left *)
(* its list still exists while something refers to it.  The dataclass ==   *)
(* of the source compares field by field; uids are unique, so it agrees    *)
(* with identity.                                                          *)
(***************************************************************************)
EXTENDS Integers, Sequences, FiniteSets, TLC

\* Python's None, for Optional references and Optional positions.
None == -1

\* ------------------------------------------------------------------ helpers

Abs(n) == IF n >= 0 THEN n ELSE -n

Min(a, b) == IF a <= b THEN a ELSE b

Max(a, b) == IF a >= b THEN a ELSE b

\* Python's int() of the rational n / d (d > 0): truncation toward zero.
Trunc(n, d) == IF n >= 0 THEN n \div d ELSE -((-n) \div d)

\* Positions: map units to hundredths.
Cm(u) == u * 100

Range(s) == {s[i] : i \in DOMAIN s}

\* list.remove(e): drops the first occurrence (the caller knows e is in s).
Remove(s, e) ==
  LET i == CHOOSE k \in DOMAIN s : s[k] = e /\ \A j \in 1..(k - 1) : s[j] # e
  IN  SubSeq(s, 1, i - 1) \o SubSeq(s, i + 1, Len(s))

\* ---------------------------------------------------------------- constants

MAP_WIDTH == 2000

STARTING_GOLD == 500

STARTING_FOOD == 200

STARTING_WOOD == 300

WORKER_RANGE == 80

FOOD_PER_UNIT == 2

STARVATION_DAMAGE == 5

\* Timer intervals in frames (seconds * 60).
RESOURCE_TICK_INTERVAL == 5 * 60

FOOD_CONSUMPTION_INTERVAL == 10 * 60

UnitTypes == {"PEASANT", "KNIGHT", "CAVALRY", "CANNON"}

BuildingTypes == {"HOUSE", "CASTLE", "FARM", "TOWER"}

Teams == {"PLAYER", "ENEMY"}

\* UNIT_STATS; speed in hundredths of a map unit per frame, cooldown in frames.
UNIT_STATS(t) ==
  CASE t = "PEASANT" -> [health |-> 50,  attack |-> 5,  defense |-> 2,  speed |-> 250,
                         range |-> 20,  cooldown |-> 60]
    [] t = "KNIGHT"  -> [health |-> 150, attack |-> 20, defense |-> 15, speed |-> 180,
                         range |-> 35,  cooldown |-> 72]
    [] t = "CAVALRY" -> [health |-> 120, attack |-> 25, defense |-> 10, speed |-> 400,
                         range |-> 40,  cooldown |-> 48]
    [] t = "CANNON"  -> [health |-> 80,  attack |-> 50, defense |-> 5,  speed |-> 100,
                         range |-> 200, cooldown |-> 180]

\* A cost is a partial mapping over gold, food, wood.
UNIT_COSTS(t) ==
  CASE t = "PEASANT" -> [gold |-> 50, food |-> 25]
    [] t = "KNIGHT"  -> [gold |-> 150, food |-> 50]
    [] t = "CAVALRY" -> [gold |-> 200, food |-> 75]
    [] t = "CANNON"  -> [gold |-> 300, food |-> 0, wood |-> 100]

BUILDING_COSTS(t) ==
  CASE t = "HOUSE"  -> [gold |-> 100, wood |-> 50]
    [] t = "CASTLE" -> [gold |-> 500, wood |-> 200]
    [] t = "FARM"   -> [gold |-> 75, wood |-> 25]
    [] t = "TOWER"  -> [gold |-> 200, wood |-> 100]

BUILDING_STATS(t) ==
  CASE t = "HOUSE"  -> [health |-> 300]
    [] t = "CASTLE" -> [health |-> 2000]
    [] t = "FARM"   -> [health |-> 200]
    [] t = "TOWER"  -> [health |-> 500]

BUILDING_RESOURCE_GENERATION(t) ==
  CASE t = "HOUSE"  -> [gold |-> 20, food |-> 0,  wood |-> 0, max_workers |-> 2]
    [] t = "FARM"   -> [gold |-> 0,  food |-> 25, wood |-> 5, max_workers |-> 3]
    [] t = "CASTLE" -> [gold |-> 10, food |-> 5,  wood |-> 5, max_workers |-> 1]
    [] t = "TOWER"  -> [gold |-> 0,  food |-> 0,  wood |-> 0, max_workers |-> 2]

\* Building.get_size: the footprint's width (the footprints are squares).
BuildingSize(t) ==
  CASE t = "HOUSE" -> 80 [] t = "CASTLE" -> 128 [] t = "FARM" -> 96 [] t = "TOWER" -> 64

\* ---------------------------------------------------------------- Resources

\* costs.get(k, 0)
CostGet(costs, k) == IF k \in DOMAIN costs THEN costs[k] ELSE 0

Resources(g, f, w) == [gold |-> g, food |-> f, wood |-> w]

can_afford(r, costs) ==
  /\ r.gold >= CostGet(costs, "gold")
  /\ r.food >= CostGet(costs, "food")
  /\ r.wood >= CostGet(costs, "wood")

\* A plausible slip: deduct as you check, returning at the first shortfall.
spend_eager(r, costs) ==
  IF r.gold < CostGet(costs, "gold") THEN [res |-> r, ok |-> FALSE]
  ELSE LET r1 == [r EXCEPT !.gold = @ - CostGet(costs, "gold")]
       IN  IF r1.food < CostGet(costs, "food") THEN [res |-> r1, ok |-> FALSE]
           ELSE LET r2 == [r1 EXCEPT !.food = @ - CostGet(costs, "food")]
                IN  IF r2.wood < CostGet(costs, "wood") THEN [res |-> r2, ok |-> FALSE]
                    ELSE [res |-> [r2 EXCEPT !.wood = @ - CostGet(costs, "wood")],
                          ok |-> TRUE]

\* Resources.spend: the resources afterwards and the value returned.
spend(r, costs) ==
  IF ~can_afford(r, costs) THEN [res |-> r, ok |-> FALSE]
  ELSE [res |-> [gold |-> r.gold - CostGet(costs, "gold"),
                 food |-> r.food - CostGet(costs, "food"),
                 wood |-> r.wood - CostGet(costs, "wood")],
        ok |-> TRUE]

\* Resources.add
add(r, g, f, w) == [gold |-> r.gold + g, food |-> r.food + f, wood |-> r.wood + w]

\* --------------------------------------------------------------------- Unit

\* Unit(x, y, unit_type, team) after __post_init__ and the uid assignment.
\* The stat fields (attack, defense, speed, range, cooldown, max_health) never
\* change after _apply_stats, so they are read from UNIT_STATS by type.
Unit(x, t, team, uid) ==
  [uid |-> uid, x |-> x, unit_type |-> t, team |-> team,
   health |-> UNIT_STATS(t).health, last_attack |-> 0,
   target_x |-> None, target_unit |-> None, target_building |-> None,
   attack_move_target |-> None,
   assigned_building |-> None, is_working |-> FALSE,
   constructing_building |-> None]

max_health(u) == UNIT_STATS(u.unit_type).health

attack_range(u) == Cm(UNIT_STATS(u.unit_type).range)

\* Unit.get_collision_radius
get_collision_radius(u) ==
  CASE u.unit_type = "CAVALRY" -> Cm(20)
    [] u.unit_type = "CANNON"  -> Cm(18)
    [] u.unit_type = "KNIGHT"  -> Cm(16)
    [] OTHER                   -> Cm(14)

\* Unit.get_size
UnitSize(u) == IF u.unit_type = "CAVALRY" THEN Cm(48) ELSE Cm(40)

\* Unit.distance_to
distance_to(u, x) == Abs(u.x - x)

is_alive(u) == u.health > 0

needs_healing(u) == u.health < max_health(u)

ClampToMap(x) == Max(Cm(20), Min(Cm(MAP_WIDTH - 20), x))

\* Unit.move_towards; dt in frames, mult10 the speed multiplier in tenths.
move_towards(u, tx, dt, mult10) ==
  IF distance_to(u, tx) > Cm(5)
  THEN LET dx   == IF tx > u.x THEN 1 ELSE -1
           step == (UNIT_STATS(u.unit_type).speed * mult10 * dt) \div 10
       IN  [u EXCEPT !.x = ClampToMap(u.x + dx * step)]
  ELSE [u EXCEPT !.target_x = None]

set_move_target(u, x) ==
  [u EXCEPT !.target_x = x, !.target_unit = None, !.target_building = None]

set_attack_target(u, t) ==
  [u EXCEPT !.target_unit = t.uid, !.target_building = None, !.target_x = t.x]

\* A plausible slip: the other reference is left in place.
set_building_target_keep(u, b) ==
  [u EXCEPT !.target_building = b.uid, !.target_x = b.x]

set_building_target(u, b) ==
  [u EXCEPT !.target_building = b.uid, !.target_unit = None, !.target_x = b.x]

clear_targets(u) ==
  [u EXCEPT !.target_x = None, !.target_unit = None, !.target_building = None,
            !.attack_move_target = None]

set_attack_move_target(u, x) ==
  [u EXCEPT !.attack_move_target = x, !.target_x = x,
            !.target_unit = None, !.target_building = None]

\* A plausible slip: assigning a peasant to the building it already has
\* releases it.
assign_to_building_toggle(u, b) ==
  IF u.unit_type # "PEASANT" THEN u
  ELSE IF u.assigned_building = b.uid
  THEN [u EXCEPT !.assigned_building = None, !.is_working = FALSE]
  ELSE set_move_target([u EXCEPT !.assigned_building = b.uid, !.is_working = FALSE], b.x)

\* A plausible slip: the test of the unit's type is left out.
assign_to_building_any(u, b) ==
  set_move_target([u EXCEPT !.assigned_building = b.uid, !.is_working = FALSE], b.x)

assign_to_building(u, b) ==
  IF u.unit_type # "PEASANT" THEN u
  ELSE set_move_target([u EXCEPT !.assigned_building = b.uid, !.is_working = FALSE], b.x)

\* A plausible slip: the peasant stops working and keeps its building.
unassign_from_building_kept(u) ==
  [u EXCEPT !.is_working = FALSE]

unassign_from_building(u) ==
  [u EXCEPT !.assigned_building = None, !.is_working = FALSE]

\* Unit.update_work_status; bx is the assigned building's position.
update_work_status(u, bx) ==
  IF u.unit_type # "PEASANT" \/ u.assigned_building = None
  THEN [u EXCEPT !.is_working = FALSE]
  ELSE LET w  == distance_to(u, bx) <= Cm(WORKER_RANGE)
           u1 == [u EXCEPT !.is_working = w]
       IN  IF ~w /\ u.target_x = None THEN set_move_target(u1, bx) ELSE u1

take_damage(e, damage) == [e EXCEPT !.health = @ - damage]

\* A plausible slip: the healing is not capped at max_health.
heal_uncapped(u, amount) ==
  IF u.health >= max_health(u) THEN u
  ELSE [u EXCEPT !.health = u.health + amount]

heal(u, amount) ==
  IF u.health >= max_health(u) THEN u
  ELSE [u EXCEPT !.health = Min(max_health(u), u.health + amount)]

\* ----------------------------------------------------------------- Building

\* Building(x, y, building_type, team) after __post_init__ (completed, 100%).
\* build_progress counts 144ths of a percent, so that every per-frame
\* increment (100 / build_time) * (1 + 0.5 * (builders - 1)) / 60 is an integer.
Building(x, t, team, uid) ==
  [uid |-> uid, x |-> x, building_type |-> t, team |-> team,
   health |-> BUILDING_STATS(t).health,
   completed |-> TRUE, build_progress |-> 100 * 144, last_attack |-> 0]

get_max_workers(b) == BUILDING_RESOURCE_GENERATION(b.building_type).max_workers

is_destroyed(b) == b.health <= 0

\* pygame.Rect(x - size // 2, ..., size, size): Rect keeps integers, so the left
\* edge is int(x) - size // 2 (size in map units).
RectLeft(center, size) == Cm(center \div 100 - size \div 2)

\* pygame.Rect.collidepoint on the line: left <= p < left + width.
RectHas(center, size, p) ==
  RectLeft(center, size) <= p /\ p < RectLeft(center, size) + Cm(size)

\* --------------------------------------------------------------------- Game

VARIABLES
  game,      \* the Game object: lists, heaps, resources, timers, selection
  net,       \* NetworkManager.message_queue
  ticks,     \* update() calls so far
  inputs     \* input events handled so far

\* Heap access.
U(g, id) == g.unit[id]

B(g, id) == g.bld[id]

InUnits(g, id) == id \in Range(g.units)

InBuildings(g, id) == id \in Range(g.buildings)

Ok(g) == g.error = "NONE"

\* An exception leaves the handler where it is raised; run() does not catch it.
Raise(g, e) == [g EXCEPT !.error = e]

\* h_trace keeps, since the tick began, the stages of _update_game as they are
\* entered, each move of a unit and each blow a unit deals.
Mark(g, what) == [g EXCEPT !.h_trace = Append(@, what)]

\* The first element of s that satisfies P, or None.
FirstWhere(s, P(_)) ==
  LET hits == {i \in DOMAIN s : P(s[i])}
  IN  IF hits = {} THEN None
      ELSE s[CHOOSE i \in hits : \A j \in hits : i <= j]

\* The nearest element of s (by D) among those satisfying P; on equal distance
\* the earlier one in the list (the loops keep the first strict minimum).
NearestWhere(s, P(_), D(_)) ==
  LET hits == {i \in DOMAIN s : P(s[i])}
  IN  IF hits = {} THEN None
      ELSE s[CHOOSE i \in hits :
               \A j \in hits : D(s[i]) < D(s[j]) \/ (D(s[i]) = D(s[j]) /\ i <= j)]

\* Health of unit id drops by damage; h_died records whose health reached <= 0
\* since the tick began.
HitUnit(g, id, damage) ==
  LET u == take_damage(U(g, id), damage)
  IN  [g EXCEPT !.unit[id] = u,
                !.h_died = IF u.health <= 0 THEN @ \cup {id} ELSE @]

\* Health of building bid drops by damage; h_razed records whose health reached
\* <= 0 since the tick began.
HitBuilding(g, bid, damage) ==
  LET b == take_damage(B(g, bid), damage)
  IN  [g EXCEPT !.bld[bid] = b,
                !.h_razed = IF is_destroyed(b) THEN @ \cup {bid} ELSE @]

\* Projectile(...): the class is imported from entities but its source is not
\* part of the repository; the fields are those the callers pass.
Projectile(x, tx, speed, damage, tu, tb, team, tower) ==
  [x |-> x, target_x |-> tx, speed |-> speed, damage |-> damage,
   target_unit |-> tu, target_building |-> tb, team |-> team,
   is_tower_projectile |-> tower]

\* What h_ball keeps of a projectile pr that was fired or has landed, taking g
\* to g2: whether its target was a live unit or a standing building before,
\* the health the target lost, and the units and buildings whose health is no
\* longer what it was.
Ball(g, g2, kind, pr, roll) ==
  LET tu == pr.target_unit
      tb == pr.target_building
      Health(g1) == IF tu # None THEN U(g1, tu).health
                    ELSE IF tb # None THEN B(g1, tb).health ELSE 0
  IN  [g2 EXCEPT !.h_ball = @ \cup
         {[kind |-> kind, pr |-> pr, roll |-> roll,
           live |-> IF tu # None /\ is_alive(U(g, tu)) THEN TRUE
                    ELSE tb # None /\ ~is_destroyed(B(g, tb)),
           lost |-> Health(g) - Health(g2),
           hurt |-> {id \in DOMAIN g.unit : g2.unit[id].health # g.unit[id].health}
                    \cup {id \in DOMAIN g.bld : g2.bld[id].health # g.bld[id].health}]}]

\* A plausible slip: the halving takes in the attack.
MeleeDamageHalved(a, d, p) ==
  (Max(1, (UNIT_STATS(a.unit_type).attack - UNIT_STATS(d.unit_type).defense) \div 2) * p)
    \div 1000

\* max(1, attack - defense // 2), then int(damage * r) for r = p / 1000.
MeleeDamage(a, d, p) ==
  (Max(1, UNIT_STATS(a.unit_type).attack - UNIT_STATS(d.unit_type).defense \div 2) * p)
    \div 1000

\* What h_blow keeps of an attack: the attacker, its health as it attacks,
\* what it attacks and the damage of the blow.
Blow(g, aid, on, damage) ==
  [g EXCEPT !.h_blow = @ \cup {[uid |-> aid, health |-> U(g, aid).health,
                                 unit_type |-> U(g, aid).unit_type,
                                 on |-> on, damage |-> damage]}]

\* Game._do_attack; p is the jitter random.uniform(0.8, 1.2) in thousandths.
_do_attack(g, aid, did, p) ==
  LET a == U(g, aid)
      d == U(g, did)
      damage == MeleeDamage(a, d, p)
      pr == Projectile(a.x, d.x, 300, damage, did, None, a.team, FALSE)
      g0 == Blow(g, aid, d.unit_type, damage)
  IN  IF a.unit_type = "CANNON"
      THEN Ball(g0, [g0 EXCEPT !.projectiles = Append(@, pr)], "fired", pr, TRUE)
      ELSE Mark(HitUnit(g0, did, damage), "damage")

\* The units of the list whose target_building is bid lose it.
ClearBuildingTargets(g, bid) ==
  [g EXCEPT !.unit = [id \in DOMAIN @ |->
      IF InUnits(g, id) /\ @[id].target_building = bid
      THEN [@[id] EXCEPT !.target_building = None] ELSE @[id]]]

\* The units of the list whose target_unit is uid lose it.
ClearUnitTargets(g, uid) ==
  [g EXCEPT !.unit = [id \in DOMAIN @ |->
      IF InUnits(g, id) /\ @[id].target_unit = uid
      THEN [@[id] EXCEPT !.target_unit = None] ELSE @[id]]]

\* Game._do_attack_building.  h_stale records an attack on a building that is
\* no longer in the building list.
_do_attack_building(g, aid, bid) ==
  LET a  == U(g, aid)
      g0 == [Blow(g, aid, "BUILDING", 0) EXCEPT !.h_stale = @ \/ ~InBuildings(g, bid)]
      pr == Projectile(a.x, B(g, bid).x, 300, (UNIT_STATS("CANNON").attack * 12) \div 10,
                       None, bid, a.team, FALSE)
  IN  IF a.unit_type = "CANNON"
      THEN Ball(g0, [g0 EXCEPT !.projectiles = Append(@, pr)], "fired", pr, TRUE)
      ELSE LET damage == IF a.unit_type = "CAVALRY"
                         THEN UNIT_STATS(a.unit_type).attack \div 2
                         ELSE UNIT_STATS(a.unit_type).attack
               g1 == Mark(HitBuilding(g0, bid, damage), "damage")
           IN  IF ~is_destroyed(B(g1, bid)) THEN g1
               ELSE IF ~InBuildings(g1, bid)
                    THEN Raise(g1, "ValueError")   \* list.remove(x): x not in list
                    ELSE ClearBuildingTargets(
                           [g1 EXCEPT !.buildings = Remove(@, bid)], bid)

\* Game._get_building_collision_slowdown, in tenths: the first building of the
\* list whose circle (0.4 * size) the unit's circle overlaps decides.
_get_building_collision_slowdown(g, u) ==
  LET Overlaps(bid) ==
        Abs(u.x - B(g, bid).x) <
          get_collision_radius(u) + BuildingSize(B(g, bid).building_type) * 40
      hit == FirstWhere(g.buildings, Overlaps)
  IN  IF hit = None THEN 10 ELSE IF B(g, hit).completed THEN 3 ELSE 6

\* ------------------------------------------------------- Game._update_units

IsMilitary(u) == u.unit_type \in {"KNIGHT", "CAVALRY", "CANNON"}

\* Movement and combat of one unit of the snapshot (the first part of the loop
\* body).  Nothing here asks whether the unit itself is alive.
MoveAndCombat(g, id, p, dt) ==
  LET u      == U(g, id)
      mult10 == _get_building_collision_slowdown(g, u)
      ready  == g.now - u.last_attack >= UNIT_STATS(u.unit_type).cooldown
      Stamp(g1) == IF Ok(g1) THEN [g1 EXCEPT !.unit[id].last_attack = g.now] ELSE g1
  IN  IF u.target_x = None THEN g
      ELSE IF u.target_unit # None /\ is_alive(U(g, u.target_unit))
      THEN LET t == U(g, u.target_unit)
           IN  IF distance_to(u, t.x) <= attack_range(u)
               THEN IF ready
                    THEN Stamp(_do_attack(g, id, t.uid, p))
                    ELSE g
               ELSE Mark([g EXCEPT !.unit[id] = move_towards(u, t.x, dt, mult10)], "move")
      ELSE IF u.target_building # None /\ ~is_destroyed(B(g, u.target_building))
      THEN LET b == B(g, u.target_building)
           IN  IF distance_to(u, b.x) <= attack_range(u) + Cm(50)
               THEN IF ready
                    THEN Stamp(_do_attack_building(g, id, b.uid))
                    ELSE g
               ELSE Mark([g EXCEPT !.unit[id] = move_towards(u, b.x, dt, mult10)], "move")
      ELSE Mark([g EXCEPT !.unit[id] = move_towards(u, u.target_x, dt, mult10)], "move")

\* Auto-attack: a unit without a unit or building target takes the nearest
\* enemy unit of the list within its aggro range, else (military or
\* attack-moving, and not assigned) the first enemy building within 2 * range.
AutoAttack(g, id) ==
  LET u == U(g, id)
      is_attack_moving == u.attack_move_target # None
      aggro == IF is_attack_moving THEN attack_range(u) * 4
               ELSE IF IsMilitary(u) THEN attack_range(u) * 3
               ELSE (attack_range(u) * 3) \div 2
      Enemy(o) == U(g, o).team # u.team /\ distance_to(u, U(g, o).x) <= aggro
      Dist(o)  == distance_to(u, U(g, o).x)
      nearest_enemy == NearestWhere(g.units, Enemy, Dist)
      EnemyB(b) == B(g, b).team # u.team /\ distance_to(u, B(g, b).x) <= attack_range(u) * 2
      building == FirstWhere(g.buildings, EnemyB)
  IN  IF ~(u.target_unit = None /\ u.target_building = None) THEN g
      ELSE IF nearest_enemy # None
      THEN [g EXCEPT !.unit[id] = set_attack_target(u, U(g, nearest_enemy))]
      ELSE IF (IsMilitary(u) \/ is_attack_moving) /\ u.assigned_building = None
                /\ building # None
      THEN [g EXCEPT !.unit[id] = set_building_target(u, B(g, building))]
      ELSE g

\* Resume attack-move when the target is gone.
ResumeAttackMove(g, id) ==
  LET u == U(g, id)
  IN  IF u.attack_move_target = None \/ u.target_unit # None \/ u.target_building # None
      THEN g
      ELSE LET u1 == IF u.target_x = None
                     THEN [u EXCEPT !.target_x = u.attack_move_target] ELSE u
               u2 == IF distance_to(u1, u.attack_move_target) < Cm(20)
                     THEN [u1 EXCEPT !.attack_move_target = None] ELSE u1
           IN  [g EXCEPT !.unit[id] = u2]

\* A plausible slip: the dead unit leaves the list and the references stay.
RemoveDeadKeepRefs(g, id) ==
  IF is_alive(U(g, id)) THEN g
  ELSE [g EXCEPT !.units = Remove(@, id), !.h_removed = @ \cup {id}]

\* Remove dead units: the unit of this iteration, if its health is <= 0, leaves
\* the list and the units still in the list drop it as target_unit.
RemoveDead(g, id) ==
  IF is_alive(U(g, id)) THEN g
  ELSE IF ~InUnits(g, id) THEN Raise(g, "ValueError")
  ELSE ClearUnitTargets([g EXCEPT !.units = Remove(@, id),
                                  !.h_removed = @ \cup {id}], id)

\* One iteration of `for unit in self.units[:]`.
UpdateOneUnit(g, id, p, dt) ==
  LET Rest(g1) == IF ~Ok(g1) THEN g1
                  ELSE RemoveDead(ResumeAttackMove(AutoAttack(g1, id), id), id)
  IN  Rest(MoveAndCombat(g, id, p, dt))

RECURSIVE UpdateUnitsFrom(_, _, _, _, _)
UpdateUnitsFrom(g, snap, i, p, dt) ==
  IF i > Len(snap) \/ ~Ok(g) THEN g
  ELSE UpdateUnitsFrom(UpdateOneUnit(g, snap[i], p, dt), snap, i + 1, p, dt)

\* Game._update_units: the loop runs over a copy of the list taken at its start.
\* p is the damage jitter drawn in this tick (one draw stands for all the
\* attacks of the tick).
_update_units(g, p, dt) == UpdateUnitsFrom(g, g.units, 1, p, dt)

\* --------------------------------------------- Game._update_unit_collisions

\* The inner loop for unit i against the later units j: each overlapping pair
\* pushes `other` at once and accumulates the push of `unit`.
\* half_push = overlap * push_strength * dt * 60 * 0.5 = overlap * dt (frames).
RECURSIVE CollideInner(_, _, _, _, _)
CollideInner(g, i, j, push, dt) ==
  IF j > Len(g.units) THEN [g |-> g, push |-> push]
  ELSE LET unit  == U(g, g.units[i])
           other == U(g, g.units[j])
           min_dist == get_collision_radius(unit) + get_collision_radius(other)
           dx   == unit.x - other.x
           dist == Abs(dx)
       IN  IF dist < min_dist /\ dist > 10
           THEN LET nx == IF dx > 0 THEN 1 ELSE -1
                    half_push == (min_dist - dist) * dt
                    g1 == [g EXCEPT !.unit[other.uid].x = ClampToMap(@ - nx * half_push)]
                IN  CollideInner(g1, i, j + 1, push + nx * half_push, dt)
           ELSE CollideInner(g, i, j + 1, push, dt)

RECURSIVE CollideFrom(_, _, _)
CollideFrom(g, i, dt) ==
  IF i > Len(g.units) THEN g
  ELSE LET r == CollideInner(g, i, i + 1, 0, dt)
       IN  CollideFrom([r.g EXCEPT !.unit[g.units[i]].x = ClampToMap(@ + r.push)], i + 1, dt)

_update_unit_collisions(g, dt) == CollideFrom(g, 1, dt)

\* ----------------------------------------------------- Game._update_workers

\* Building.count_workers
count_workers(g, bid) ==
  Cardinality({i \in DOMAIN g.units :
     LET u == U(g, g.units[i])
     IN  /\ u.unit_type = "PEASANT"
         /\ u.team = B(g, bid).team
         /\ u.assigned_building = bid
         /\ u.is_working})

WorkerUpdate(g, u) ==
  IF u.unit_type # "PEASANT" THEN u
  ELSE LET u1 == IF u.assigned_building # None /\ ~InBuildings(g, u.assigned_building)
                 THEN unassign_from_building(u) ELSE u
           u2 == IF u1.constructing_building # None
                    /\ ~InBuildings(g, u1.constructing_building)
                 THEN [u1 EXCEPT !.constructing_building = None] ELSE u1
       IN  update_work_status(u2, IF u2.assigned_building = None THEN None
                                  ELSE B(g, u2.assigned_building).x)

_update_workers(g) ==
  [g EXCEPT !.unit = [id \in DOMAIN @ |->
     IF InUnits(g, id) THEN WorkerUpdate(g, @[id]) ELSE @[id]]]

\* ------------------------------------------------ Game._update_construction

\* 144ths of a percent per frame and per (builders + 1):
\* (100 / build_time) * (1 + 0.5 * (builders - 1)) / 60 = (builders + 1) * 120 / (144 * build_time)
BuildRate(t) ==
  CASE t = "HOUSE" -> 12 [] t = "FARM" -> 15 [] t = "CASTLE" -> 4 [] t = "TOWER" -> 8

Builders(g, bid) ==
  Cardinality({i \in DOMAIN g.units :
     LET u == U(g, g.units[i])
     IN  /\ u.unit_type = "PEASANT"
         /\ u.constructing_building = bid
         /\ distance_to(u, B(g, bid).x) <= Cm(WORKER_RANGE)})

\* What h_site keeps of a building's turn in _update_construction: the
\* building, the builders counted, and its progress before and after.
Visited(b, builders, b2) ==
  [uid |-> b.uid, builders |-> builders, before |-> b.build_progress,
   after |-> b2.build_progress, completed |-> b2.completed]

\* A plausible slip: the builders are left on the finished building.
ConstructOneKeep(g, bid, dt) ==
  LET b == B(g, bid)
      n == Builders(g, bid)
      progress == b.build_progress + BuildRate(b.building_type) * (n + 1) * dt
  IN  IF b.completed \/ b.team # "PLAYER" \/ n = 0 THEN g
      ELSE IF progress < 100 * 144 THEN [g EXCEPT !.bld[bid].build_progress = progress]
      ELSE [g EXCEPT !.bld[bid].build_progress = 100 * 144,
                     !.bld[bid].completed = TRUE]

ConstructOne(g, bid, dt) ==
  LET b == B(g, bid)
      n == Builders(g, bid)
      progress == b.build_progress + BuildRate(b.building_type) * (n + 1) * dt
  IN  IF b.completed \/ b.team # "PLAYER" \/ n = 0 THEN g
      ELSE IF progress < 100 * 144 THEN [g EXCEPT !.bld[bid].build_progress = progress]
      ELSE [g EXCEPT !.bld[bid].build_progress = 100 * 144,
                     !.bld[bid].completed = TRUE,
                     !.unit = [id \in DOMAIN @ |->
                        IF InUnits(g, id) /\ @[id].constructing_building = bid
                        THEN [@[id] EXCEPT !.constructing_building = None] ELSE @[id]]]

\* One building of the loop, and the note of its turn.
ConstructNoted(g, bid, dt) ==
  LET g2 == ConstructOne(g, bid, dt)
  IN  [g2 EXCEPT !.h_site = @ \cup {Visited(B(g, bid), Builders(g, bid), B(g2, bid))}]

RECURSIVE ConstructFrom(_, _, _)
ConstructFrom(g, i, dt) ==
  IF i > Len(g.buildings) THEN g
  ELSE ConstructFrom(ConstructNoted(g, g.buildings[i], dt), i + 1, dt)

_update_construction(g, dt) == ConstructFrom(g, 1, dt)

\* ------------------------------------------------ Game._update_tower_attacks

\* What h_shots keeps of a tower's shot: the tower, the time, how many
\* peasants worked at it, the target's team and distance, and the distances of
\* all the units of the other team in the list.
Shot(g, bid, target) ==
  [tower |-> bid, at |-> g.now, completed |-> B(g, bid).completed,
   workers |-> count_workers(g, bid),
   target_team |-> U(g, target).team,
   target_dist |-> Abs(U(g, target).x - B(g, bid).x),
   enemy_dists |-> {Abs(U(g, o).x - B(g, bid).x) :
                      o \in {id \in Range(g.units) : U(g, id).team # B(g, bid).team}}]

\* A plausible slip: the tower fires without asking who works at it.
TowerFireUnstaffed(g, bid) ==
  LET b == B(g, bid)
      Enemy(o) == U(g, o).team # b.team /\ Abs(U(g, o).x - b.x) <= Cm(250)
      Dist(o)  == Abs(U(g, o).x - b.x)
      nearest_enemy == NearestWhere(g.units, Enemy, Dist)
  IN  IF \/ b.building_type # "TOWER" \/ ~b.completed
         \/ g.now - b.last_attack < 120
         \/ nearest_enemy = None
      THEN g
      ELSE [g EXCEPT !.bld[bid].last_attack = g.now,
                     !.h_shots = Append(@, Shot(g, bid, nearest_enemy)),
                     !.projectiles = Append(@,
                        Projectile(b.x, U(g, nearest_enemy).x, 350, 60,
                                   nearest_enemy, None, b.team, TRUE))]

\* TOWER_STATS: attack 60, range 250, cooldown 2.0 s (120 frames), hit_chance 0.7.
TowerFire(g, bid) ==
  LET b == B(g, bid)
      Enemy(o) == U(g, o).team # b.team /\ Abs(U(g, o).x - b.x) <= Cm(250)
      Dist(o)  == Abs(U(g, o).x - b.x)
      nearest_enemy == NearestWhere(g.units, Enemy, Dist)
  IN  IF \/ b.building_type # "TOWER" \/ ~b.completed
         \/ count_workers(g, bid) < 2
         \/ g.now - b.last_attack < 120
         \/ nearest_enemy = None
      THEN g
      ELSE [g EXCEPT !.bld[bid].last_attack = g.now,
                     !.h_shots = Append(@, Shot(g, bid, nearest_enemy)),
                     !.projectiles = Append(@,
                        Projectile(b.x, U(g, nearest_enemy).x, 350, 60,
                                   nearest_enemy, None, b.team, TRUE))]

RECURSIVE TowersFrom(_, _)
TowersFrom(g, i) ==
  IF i > Len(g.buildings) THEN g ELSE TowersFrom(TowerFire(g, g.buildings[i]), i + 1)

_update_tower_attacks(g) == TowersFrom(g, 1)

\* -------------------------------------------------- Game._update_projectiles

\* Projectile.update(dt): fly toward the captured target position at constant
\* speed (map units per second); TRUE on arrival.  speed * dt in hundredths,
\* dt in frames: speed * 100 * dt / 60, rounded down.
ProjectileStep(pr, dt) == (pr.speed * dt * 5) \div 3

ProjectileArrives(pr, dt) == Abs(pr.target_x - pr.x) <= ProjectileStep(pr, dt)

ProjectileMoved(pr, dt) ==
  [pr EXCEPT !.x = IF pr.target_x > pr.x THEN @ + ProjectileStep(pr, dt)
                   ELSE @ - ProjectileStep(pr, dt)]

\* A plausible slip: the killed unit leaves the list and the references stay.
ProjectileKillKeepRefs(g, uid) ==
  IF ~InUnits(g, uid) THEN g
  ELSE [g EXCEPT !.units = Remove(@, uid), !.h_removed = @ \cup {uid}]

\* The target unit was killed by the projectile.
ProjectileKill(g, uid) ==
  IF ~InUnits(g, uid) THEN g
  ELSE ClearUnitTargets([g EXCEPT !.units = Remove(@, uid),
                                  !.h_removed = @ \cup {uid}], uid)

\* A plausible slip: the projectile strikes whatever has become of its target.
ProjectileImpactBlind(g, pr, roll) ==
  IF pr.target_unit # None
  THEN IF pr.is_tower_projectile /\ ~roll THEN g
       ELSE LET g1 == HitUnit(g, pr.target_unit, pr.damage)
            IN  IF is_alive(U(g1, pr.target_unit)) THEN g1
                ELSE ProjectileKill(g1, pr.target_unit)
  ELSE IF pr.target_building # None
  THEN LET g1 == HitBuilding(g, pr.target_building, pr.damage)
       IN  IF ~is_destroyed(B(g1, pr.target_building)) THEN g1
           ELSE IF ~InBuildings(g1, pr.target_building) THEN g1
           ELSE ClearBuildingTargets(
                  [g1 EXCEPT !.buildings = Remove(@, pr.target_building)],
                  pr.target_building)
  ELSE g

\* What a projectile does on arrival; roll is random.random() < hit_chance.
ProjectileImpact(g, pr, roll) ==
  IF pr.target_unit # None /\ is_alive(U(g, pr.target_unit))
  THEN IF pr.is_tower_projectile /\ ~roll THEN g
       ELSE LET g1 == HitUnit(g, pr.target_unit, pr.damage)
            IN  IF is_alive(U(g1, pr.target_unit)) THEN g1
                ELSE ProjectileKill(g1, pr.target_unit)
  ELSE IF pr.target_building # None /\ ~is_destroyed(B(g, pr.target_building))
  THEN LET g1 == HitBuilding(g, pr.target_building, pr.damage)
       IN  IF ~is_destroyed(B(g1, pr.target_building)) THEN g1
           ELSE IF ~InBuildings(g1, pr.target_building) THEN g1
           ELSE ClearBuildingTargets(
                  [g1 EXCEPT !.buildings = Remove(@, pr.target_building)],
                  pr.target_building)
  ELSE g

\* The loop over the copy of the projectile list: `rest` are the projectiles
\* still to be visited, `kept` those that stay in flight.
RECURSIVE ProjectilesFrom(_, _, _, _, _)
ProjectilesFrom(g, rest, kept, dt, roll) ==
  IF rest = <<>> THEN [g EXCEPT !.projectiles = kept]
  ELSE LET pr == Head(rest)
       IN  IF ProjectileArrives(pr, dt)
           THEN ProjectilesFrom(Ball(g, ProjectileImpact(g, pr, roll), "landed", pr, roll),
                                Tail(rest), kept, dt, roll)
           ELSE ProjectilesFrom(g, Tail(rest), Append(kept, ProjectileMoved(pr, dt)),
                                dt, roll)

_update_projectiles(g, dt, roll) == ProjectilesFrom(g, g.projectiles, <<>>, dt, roll)

\* ---------------------------------------------------- Game._update_resources

\* Building.get_resource_generation: int(base * min(1.0, workers / max_workers)).
ResourceGen(g, bid, k) ==
  LET m == get_max_workers(B(g, bid))
      w == Min(count_workers(g, bid), m)
  IN  IF m = 0 THEN 0
      ELSE Trunc(BUILDING_RESOURCE_GENERATION(B(g, bid).building_type)[k] * w, m)

\* What h_gen keeps of a building met on a resource tick: whether it was
\* completed and whether Resources.add was called for it.
Generated(b, added) == [bid |-> b.uid, completed |-> b.completed, added |-> added]

\* The resources a building yields go to its team's store.
Generate(g, bid) ==
  LET b == B(g, bid)
      g1 == [g EXCEPT !.h_gen = @ \cup {Generated(b, TRUE)}]
  IN  IF b.team = "PLAYER"
      THEN [g1 EXCEPT !.player_resources =
              add(@, ResourceGen(g, bid, "gold"), ResourceGen(g, bid, "food"),
                  ResourceGen(g, bid, "wood"))]
      ELSE [g1 EXCEPT !.enemy_resources =
              add(@, ResourceGen(g, bid, "gold"), ResourceGen(g, bid, "food"),
                  ResourceGen(g, bid, "wood"))]

\* A plausible slip: the test of building.completed is left out.
GenerateOneUnfinished(g, bid) == Generate(g, bid)

GenerateOne(g, bid) ==
  LET b == B(g, bid)
  IN  IF ~b.completed THEN [g EXCEPT !.h_gen = @ \cup {Generated(b, FALSE)}]
      ELSE Generate(g, bid)

RECURSIVE GenerateFrom(_, _)
GenerateFrom(g, i) ==
  IF i > Len(g.buildings) THEN g ELSE GenerateFrom(GenerateOne(g, g.buildings[i]), i + 1)

_update_resources(g, dt) ==
  LET t == g.resource_timer + dt
  IN  IF t < RESOURCE_TICK_INTERVAL THEN [g EXCEPT !.resource_timer = t]
      ELSE GenerateFrom([g EXCEPT !.resource_timer = 0], 1)

\* ---------------------------------------------- Game._update_food_consumption

TeamUnits(g, team) == {id \in Range(g.units) : U(g, id).team = team}

\* Every unit of the set takes STARVATION_DAMAGE.
Starve(g, ids) ==
  [g EXCEPT !.unit = [id \in DOMAIN @ |->
       IF id \in ids THEN take_damage(@[id], STARVATION_DAMAGE) ELSE @[id]],
     !.h_died = @ \cup {id \in ids : U(g, id).health - STARVATION_DAMAGE <= 0}]

\* What a food-consumption tick did to one team: its food before and after,
\* how many of its units the list holds and how many of them are alive, and the
\* health each of its units lost.
Fed(g, g2, team) ==
  LET ids == TeamUnits(g, team)
      Food(h) == IF team = "PLAYER" THEN h.player_resources.food
                 ELSE h.enemy_resources.food
  IN  [team |-> team, food_before |-> Food(g), food_after |-> Food(g2),
       listed |-> Cardinality(ids),
       living |-> Cardinality({id \in ids : is_alive(U(g, id))}),
       lost |-> {U(g, id).health - U(g2, id).health : id \in ids}]

NoteFed(g, g2, team) == [g2 EXCEPT !.h_food = @ \cup {Fed(g, g2, team)}]

ConsumeFood(g, team) ==
  LET ids    == TeamUnits(g, team)
      needed == Cardinality(ids) * FOOD_PER_UNIT
      r      == IF team = "PLAYER" THEN g.player_resources ELSE g.enemy_resources
      food   == IF r.food >= needed THEN r.food - needed ELSE 0
      g1     == IF team = "PLAYER" THEN [g EXCEPT !.player_resources.food = food]
                ELSE [g EXCEPT !.enemy_resources.food = food]
  IN  NoteFed(g, IF r.food >= needed THEN g1 ELSE Starve(g1, ids), team)

_update_food_consumption(g, dt) ==
  LET t == g.food_timer + dt
  IN  IF t < FOOD_CONSUMPTION_INTERVAL THEN [g EXCEPT !.food_timer = t]
      ELSE ConsumeFood(ConsumeFood([g EXCEPT !.food_timer = 0], "PLAYER"), "ENEMY")

\* ------------------------------------------------------ Game._update_healing

heal_amount == 5

heal_food_cost == 3

\* What h_heal keeps of a unit's turn in the healing loop, taking g to g2: the
\* unit, its health and its team's food before and after.
Treated(g, g2, id, team) ==
  LET Food(g1) == IF team = "PLAYER" THEN g1.player_resources.food
                  ELSE g1.enemy_resources.food
  IN  [g2 EXCEPT !.h_heal = @ \cup
         {[uid |-> id, food |-> Food(g), food_after |-> Food(g2),
           health |-> U(g, id).health, health_after |-> U(g2, id).health]}]

\* The units of `rest` (those that needed healing when the list was built) are
\* healed in list order while the food lasts.
RECURSIVE HealFrom(_, _, _)
HealFrom(g, rest, team) ==
  IF rest = <<>> THEN g
  ELSE LET id == Head(rest)
           r  == IF team = "PLAYER" THEN g.player_resources ELSE g.enemy_resources
           u  == heal(U(g, id), heal_amount)
           healed == r.food >= heal_food_cost /\ U(g, id).health < max_health(U(g, id))
           g1 == IF ~healed THEN g
                 ELSE IF team = "PLAYER"
                 THEN [g EXCEPT !.unit[id] = u, !.player_resources.food = @ - heal_food_cost]
                 ELSE [g EXCEPT !.unit[id] = u, !.enemy_resources.food = @ - heal_food_cost]
       IN  HealFrom(Treated(g, g1, id, team), Tail(rest), team)

HealTeam(g, team) ==
  HealFrom(g, SelectSeq(g.units,
                        LAMBDA id : U(g, id).team = team /\ needs_healing(U(g, id))),
           team)

_update_healing(g, dt) ==
  LET t == g.heal_timer + dt
  IN  IF t < 2 * 60 THEN [g EXCEPT !.heal_timer = t]
      ELSE LET g0 == [g EXCEPT !.heal_timer = 0]
               g1 == IF g0.player_healing_enabled THEN HealTeam(g0, "PLAYER") ELSE g0
           IN  IF g1.enemy_healing_enabled THEN HealTeam(g1, "ENEMY") ELSE g1

\* ---------------------------------------------------- Game._check_game_over

HasCastle(g, team) ==
  \E i \in DOMAIN g.buildings :
     B(g, g.buildings[i]).building_type = "CASTLE" /\ B(g, g.buildings[i]).team = team

_check_game_over(g) ==
  IF ~HasCastle(g, "PLAYER") \/ ~HasCastle(g, "ENEMY")
  THEN [g EXCEPT !.state = "GAME_OVER"] ELSE g

\* -------------------------------------------------------------------- AIBot

Difficulties == {"EASY", "NORMAL", "HARD", "BRUTAL"}

\* DIFFICULTY_SETTINGS, in integers: think_interval = 2.0 / think_speed in
\* frames, extra = int((resource_bonus - 1.0) * 50) as the floats give it (0 when
\* the bonus is not above 1.0), aggression in tenths.
DIFFICULTY_SETTINGS(d) ==
  CASE d = "EASY"   -> [think_interval |-> 240, extra |-> 0,  aggression |-> 3,
                        military_cap |-> 5]
    [] d = "NORMAL" -> [think_interval |-> 120, extra |-> 0,  aggression |-> 5,
                        military_cap |-> 8]
    [] d = "HARD"   -> [think_interval |-> 80,  extra |-> 9,  aggression |-> 7,
                        military_cap |-> 12]
    [] d = "BRUTAL" -> [think_interval |-> 60,  extra |-> 25, aggression |-> 9,
                        military_cap |-> 20]

\* AIBot.__init__
AIBot(difficulty) ==
  [difficulty |-> difficulty, think_timer |-> 0, state |-> "building",
   attack_target |-> None, resource_bonus_timer |-> 0,
   flanking_active |-> FALSE, flank_target_left |-> None, flank_target_right |-> None,
   flank_units_left |-> <<>>, flank_units_right |-> <<>>, main_force_units |-> <<>>,
   rally_point |-> None, army_gathered |-> FALSE, gather_timer |-> 0]

aggression(g) == DIFFICULTY_SETTINGS(g.ai_bot.difficulty).aggression

my_units(g) == SelectSeq(g.units, LAMBDA id : U(g, id).team = "ENEMY")

my_buildings(g) == SelectSeq(g.buildings, LAMBDA id : B(g, id).team = "ENEMY")

enemy_units(g) == SelectSeq(g.units, LAMBDA id : U(g, id).team = "PLAYER")

enemy_buildings(g) == SelectSeq(g.buildings, LAMBDA id : B(g, id).team = "PLAYER")

my_castle(g) ==
  LET IsCastle(id) == B(g, id).building_type = "CASTLE"
  IN  FirstWhere(my_buildings(g), IsCastle)

military_units(g) == SelectSeq(my_units(g), LAMBDA id : U(g, id).unit_type # "PEASANT")

enemy_military_units(g) ==
  SelectSeq(enemy_units(g), LAMBDA id : U(g, id).unit_type # "PEASANT")

my_peasants(g) == SelectSeq(my_units(g), LAMBDA id : U(g, id).unit_type = "PEASANT")

idle_peasants(g) ==
  SelectSeq(my_peasants(g), LAMBDA id : U(g, id).assigned_building = None)

_are_all_buildings_staffed(g) ==
  \A i \in DOMAIN my_buildings(g) :
     LET bid == my_buildings(g)[i]
     IN  get_max_workers(B(g, bid)) > 0 => count_workers(g, bid) >= get_max_workers(B(g, bid))

ClampToField(x) == Max(Cm(100), Min(Cm(MAP_WIDTH - 100), x))

\* AIBot._calculate_defense_positions: the x coordinates of the eight posts
\* (center_x = castle.x - 200 * 0.7, spacing 80 * 0.7 along x).
_calculate_defense_positions(g) ==
  IF my_castle(g) = None THEN <<>>
  ELSE [i \in 1..8 |->
          ClampToField(B(g, my_castle(g)).x - Cm(140) + ((i - 1) - 4) * Cm(56))]

\* AIBot._calculate_flank_positions: on the line the attack vector is (+-1, 0),
\* the perpendicular is (0, +-1), so both flank points have the target's x; their
\* y offset of 250 is not represented.
_calculate_flank_positions(g, target) ==
  IF my_castle(g) = None THEN <<target, target>>
  ELSE IF Abs(target - B(g, my_castle(g)).x) < Cm(1) THEN <<target, target>>
  ELSE <<ClampToField(target), ClampToField(target)>>

_should_use_flanking(g) ==
  LET d == g.ai_bot.difficulty
      military_count == Len(military_units(g))
      enemy_military == Len(enemy_military_units(g))
  IN  IF d \notin {"HARD", "BRUTAL"} THEN FALSE
      ELSE IF military_count < 6 THEN FALSE
      ELSE IF d = "BRUTAL" /\ military_count >= 6 THEN TRUE
      ELSE d = "HARD" /\ military_count >= 8 /\ military_count > enemy_military

\* The elements of s at even / odd 0-based positions.
Evens(s) == SelectSeq([i \in DOMAIN s |-> IF (i - 1) % 2 = 0 THEN s[i] ELSE None],
                      LAMBDA e : e # None)

Odds(s) == SelectSeq([i \in DOMAIN s |-> IF (i - 1) % 2 = 1 THEN s[i] ELSE None],
                     LAMBDA e : e # None)

\* AIBot._setup_flanking_attack
_setup_flanking_attack(g) ==
  IF g.ai_bot.attack_target = None THEN g
  ELSE LET military == military_units(g)
           cavalry == SelectSeq(military, LAMBDA id : U(g, id).unit_type = "CAVALRY")
           knights == SelectSeq(military, LAMBDA id : U(g, id).unit_type = "KNIGHT")
           cannons == SelectSeq(military, LAMBDA id : U(g, id).unit_type = "CANNON")
           fk    == Len(knights) \div 3
           left  == Evens(cavalry) \o SubSeq(knights, 1, fk)
           right == Odds(cavalry) \o SubSeq(knights, fk + 1, 2 * fk)
           main  == SubSeq(knights, 2 * fk + 1, Len(knights)) \o cannons
           fp    == _calculate_flank_positions(g, g.ai_bot.attack_target)
           g1    == [g EXCEPT !.ai_bot.flank_target_left = fp[1],
                              !.ai_bot.flank_target_right = fp[2]]
       IN  IF Len(military) < 6 THEN [g EXCEPT !.ai_bot.flanking_active = FALSE]
           ELSE IF Len(left) < 2 \/ Len(right) < 2
           THEN [g1 EXCEPT !.ai_bot.main_force_units = main \o left \o right,
                           !.ai_bot.flank_units_left = <<>>,
                           !.ai_bot.flank_units_right = <<>>,
                           !.ai_bot.flanking_active = FALSE]
           ELSE [g1 EXCEPT !.ai_bot.flank_units_left = left,
                           !.ai_bot.flank_units_right = right,
                           !.ai_bot.main_force_units = main,
                           !.ai_bot.flanking_active = TRUE]

_cancel_flanking(g) ==
  [g EXCEPT !.ai_bot.flanking_active = FALSE,
            !.ai_bot.flank_units_left = <<>>, !.ai_bot.flank_units_right = <<>>,
            !.ai_bot.main_force_units = <<>>,
            !.ai_bot.flank_target_left = None, !.ai_bot.flank_target_right = None]

_cancel_attack(g) ==
  [_cancel_flanking(g) EXCEPT !.ai_bot.rally_point = None,
                              !.ai_bot.army_gathered = FALSE,
                              !.ai_bot.gather_timer = 0,
                              !.ai_bot.attack_target = None]

\* AIBot._assess_threats; int(4 * aggression + 2) with aggression in tenths.
\* A plausible slip: the AI turns to defence and keeps its attack as it stands.
_assess_threats_kept(g) ==
  IF my_castle(g) = None THEN g
  ELSE LET cx == B(g, my_castle(g)).x
           nearby_enemies ==
             SelectSeq(enemy_units(g), LAMBDA id : distance_to(U(g, id), cx) < Cm(300))
       IN  IF Len(nearby_enemies) >= 2
           THEN [g EXCEPT !.ai_bot.state = "defending", !.ai_bot.attack_target = cx]
           ELSE IF Len(military_units(g)) >= (4 * aggression(g) + 20) \div 10
                   /\ g.ai_bot.state # "defending"
           THEN [g EXCEPT !.ai_bot.state = "attacking"]
           ELSE g

_assess_threats(g) ==
  IF my_castle(g) = None THEN g
  ELSE LET cx == B(g, my_castle(g)).x
           nearby_enemies ==
             SelectSeq(enemy_units(g), LAMBDA id : distance_to(U(g, id), cx) < Cm(300))
       IN  IF Len(nearby_enemies) >= 2
           THEN [_cancel_attack([g EXCEPT !.ai_bot.state = "defending"])
                   EXCEPT !.ai_bot.attack_target = cx]
           ELSE IF Len(military_units(g)) >= (4 * aggression(g) + 20) \div 10
                   /\ g.ai_bot.state # "defending"
           THEN [g EXCEPT !.ai_bot.state = "attacking"]
           ELSE g

\* AIBot._calculate_rally_point: 300 from the castle toward the target.
_calculate_rally_point(g) ==
  IF my_castle(g) = None \/ g.ai_bot.attack_target = None THEN None
  ELSE LET cx == B(g, my_castle(g)).x
           dx == g.ai_bot.attack_target - cx
       IN  IF Abs(dx) < Cm(1) THEN cx
           ELSE ClampToField(cx + (IF dx > 0 THEN 1 ELSE -1) * Cm(300))

\* A plausible slip: half of the army is enough.
_is_army_gathered_half(g) ==
  IF g.ai_bot.rally_point = None THEN TRUE
  ELSE LET military == military_units(g)
           gathered == SelectSeq(military,
                         LAMBDA id : distance_to(U(g, id), g.ai_bot.rally_point) < Cm(150))
       IN  IF military = <<>> THEN FALSE
           ELSE Len(gathered) * 10 >= Len(military) * 5

\* h_gather records, each time army_gathered becomes true, the rally point and
\* how many of the military units were within 150 of it.
NoteGathered(g) ==
  LET rally == g.ai_bot.rally_point
      near  == IF rally = None THEN 0
               ELSE Len(SelectSeq(military_units(g),
                          LAMBDA id : distance_to(U(g, id), rally) < Cm(150)))
  IN  [g EXCEPT !.h_gather = @ \cup {[difficulty |-> g.ai_bot.difficulty, rally |-> rally,
                                       near |-> near, total |-> Len(military_units(g))]}]

\* AIBot._is_army_gathered: gathered_count >= total * 0.7.
_is_army_gathered(g) ==
  IF g.ai_bot.rally_point = None THEN TRUE
  ELSE LET military == military_units(g)
           gathered == SelectSeq(military,
                         LAMBDA id : distance_to(U(g, id), g.ai_bot.rally_point) < Cm(150))
       IN  IF military = <<>> THEN FALSE
           ELSE Len(gathered) * 10 >= Len(military) * 7

\* A plausible slip: the counter is read and not advanced.
AddUnitReused(g, x, t, team) ==
  LET uid == g.uid_counter
  IN  [g EXCEPT !.units = Append(@, uid),
                !.unit = [id \in DOMAIN @ \cup {uid} |->
                            IF id = uid THEN Unit(x, t, team, uid) ELSE @[id]]]

\* Game.next_uid and the append of a new object to its list.
AddUnit(g, x, t, team) ==
  LET uid == g.uid_counter + 1
  IN  [g EXCEPT !.uid_counter = uid,
                !.units = Append(@, uid),
                !.unit = [id \in DOMAIN @ \cup {uid} |->
                            IF id = uid THEN Unit(x, t, team, uid) ELSE @[id]]]

AddBuilding(g, b) ==
  LET uid == g.uid_counter + 1
  IN  [g EXCEPT !.uid_counter = uid,
                !.buildings = Append(@, uid),
                !.bld = [id \in DOMAIN @ \cup {uid} |->
                           IF id = uid THEN [b EXCEPT !.uid = uid] ELSE @[id]]]

\* AIBot._assign_workers, the loop over the buildings by priority; idle is the
\* list of peasants still to place.
RECURSIVE AssignFrom(_, _, _)
AssignFrom(g, blds, idle) ==
  IF blds = <<>> \/ idle = <<>> THEN g
  ELSE LET bid  == Head(blds)
           free == get_max_workers(B(g, bid)) - count_workers(g, bid)
           n    == Max(0, Min(free, Len(idle)))
           take == SubSeq(idle, 1, n)
           g1   == [g EXCEPT !.unit = [id \in DOMAIN @ |->
                       IF id \in Range(take) THEN assign_to_building(@[id], B(g, bid))
                       ELSE @[id]]]
       IN  AssignFrom(g1, Tail(blds), SubSeq(idle, n + 1, Len(idle)))

_assign_workers(g) ==
  LET farms  == SelectSeq(my_buildings(g), LAMBDA id : B(g, id).building_type = "FARM")
      others == SelectSeq(my_buildings(g), LAMBDA id : B(g, id).building_type # "FARM")
  IN  AssignFrom(g, farms \o others, idle_peasants(g))

\* What h_try keeps of a call of _try_train_unit or _try_build_building that
\* took g to g2: whether the cost could be paid, whether the AI had a castle,
\* whether the lists, the objects, the uid counter and the AI's resources are
\* as they were, and the error raised.
Tried(g, g2, what, t, cost) ==
  [g2 EXCEPT !.h_try = @ \cup
     {[what |-> what, type |-> t,
       affordable |-> can_afford(g.enemy_resources, cost),
       castle |-> my_castle(g) # None,
       unchanged |-> /\ g2.units = g.units /\ g2.unit = g.unit
                     /\ g2.buildings = g.buildings /\ g2.bld = g.bld
                     /\ g2.uid_counter = g.uid_counter
                     /\ g2.enemy_resources = g.enemy_resources,
       error |-> g2.error]}]

\* AIBot._try_build_building; side and dist stand for the random angle (toward
\* or away from the player's side) and distance.  h_built keeps, for each
\* building the AI creates, whether all its buildings were staffed at that
\* moment.
_try_build_building(g, t, side, dist) ==
  LET g2 ==
        IF ~can_afford(g.enemy_resources, BUILDING_COSTS(t)) THEN g
        ELSE IF my_castle(g) = None THEN g
        ELSE AddBuilding(
               [g EXCEPT !.enemy_resources = spend(@, BUILDING_COSTS(t)).res,
                         !.h_built = @ \cup {[uid |-> g.uid_counter + 1,
                                               building_type |-> t,
                                               difficulty |-> g.ai_bot.difficulty,
                                               staffed |-> _are_all_buildings_staffed(g)]}],
               Building(ClampToField(B(g, my_castle(g)).x + side * dist), t, "ENEMY", 0))
  IN  Tried(g, g2, "build", t, BUILDING_COSTS(t))

\* A plausible slip: the unit is created whether or not the cost can be paid.
_try_train_unit_unpaid(g, t, side) ==
  LET g2 ==
        IF my_castle(g) = None THEN g
        ELSE AddUnit([g EXCEPT !.enemy_resources = spend(@, UNIT_COSTS(t)).res],
                     B(g, my_castle(g)).x + side * Cm(80), t, "ENEMY")
  IN  Tried(g, g2, "train", t, UNIT_COSTS(t))

\* AIBot._try_train_unit
_try_train_unit(g, t, side) ==
  LET g2 ==
        IF ~can_afford(g.enemy_resources, UNIT_COSTS(t)) THEN g
        ELSE IF my_castle(g) = None THEN g
        ELSE AddUnit([g EXCEPT !.enemy_resources = spend(@, UNIT_COSTS(t)).res],
                     B(g, my_castle(g)).x + side * Cm(80), t, "ENEMY")
  IN  Tried(g, g2, "train", t, UNIT_COSTS(t))

\* AIBot._economic_decisions; the counts are taken before anything is built.
_economic_decisions(g, r) ==
  LET CountB(t) == Len(SelectSeq(my_buildings(g), LAMBDA id : B(g, id).building_type = t))
      farms  == CountB("FARM")
      houses == CountB("HOUSE")
      peasants == Len(my_peasants(g))
      SumSlots[i \in 0..Len(my_buildings(g))] ==
        IF i = 0 THEN 0 ELSE SumSlots[i - 1] + get_max_workers(B(g, my_buildings(g)[i]))
      total_slots == SumSlots[Len(my_buildings(g))]
      max_farms   == 3 + (aggression(g) * 2) \div 10
      max_houses  == 2 + (aggression(g) * 2) \div 10
      can_build_new == g.ai_bot.difficulty = "EASY" \/ _are_all_buildings_staffed(g)
      g1 == IF g.enemy_resources.food < 150 /\ farms < max_farms /\ can_build_new
            THEN _try_build_building(g, "FARM", r.side, r.bdist) ELSE g
      House(g2) == IF houses < max_houses /\ g2.enemy_resources.gold >= 100 /\ can_build_new
                   THEN _try_build_building(g2, "HOUSE", r.side, r.bdist) ELSE g2
      max_peasants == 6 + (aggression(g) * 4) \div 10
      Peasant(g2) == IF (peasants < total_slots + 1 /\ peasants < max_peasants)
                        \/ peasants < 3
                     THEN _try_train_unit(g2, "PEASANT", r.side)
                     ELSE g2
  IN  Peasant(House(g1))

\* AIBot._setup_attack
_setup_attack(g) ==
  LET g0 == [g EXCEPT !.ai_bot.army_gathered = FALSE, !.ai_bot.gather_timer = 0]
      g1 == IF g.ai_bot.difficulty = "EASY"
            THEN NoteGathered([g0 EXCEPT !.ai_bot.rally_point = None,
                                         !.ai_bot.army_gathered = TRUE])
            ELSE [g0 EXCEPT !.ai_bot.rally_point = _calculate_rally_point(g0)]
      Flank(g2) == IF _should_use_flanking(g2) THEN _setup_flanking_attack(g2) ELSE g2
  IN  Flank(g1)

\* random.choice(s) for the draw r.pick.
Choice(s, pick) == s[(pick % Len(s)) + 1]

\* AIBot._choose_attack_target
_choose_attack_target(g, r) ==
  LET eb == enemy_buildings(g)
      castles == SelectSeq(eb, LAMBDA id : B(g, id).building_type = "CASTLE")
      non_castles == SelectSeq(eb, LAMBDA id : B(g, id).building_type # "CASTLE")
      attack_target ==
        IF eb # <<>>
        THEN IF aggression(g) > 7 /\ r.castle_first /\ castles # <<>>
             THEN B(g, castles[1]).x
             ELSE B(g, Choice(IF non_castles # <<>> THEN non_castles ELSE eb, r.pick)).x
        ELSE IF enemy_units(g) # <<>>
        THEN U(g, Choice(enemy_units(g), r.pick)).x
        ELSE g.ai_bot.attack_target
  IN  _setup_attack([g EXCEPT !.ai_bot.attack_target = attack_target])

\* AIBot._military_decisions; r.cav and r.can are the outcomes of the two
\* random.random() < ... tests.
_military_decisions(g, r) ==
  LET military_count == Len(military_units(g))
      enemy_military_count == Len(enemy_military_units(g))
      military_cap == DIFFICULTY_SETTINGS(g.ai_bot.difficulty).military_cap
      g1 == IF military_count >= military_cap THEN g
            ELSE IF g.enemy_resources.gold >= 200 /\ r.cav
            THEN _try_train_unit(g, "CAVALRY", r.side)
            ELSE IF g.enemy_resources.gold >= 150
            THEN _try_train_unit(g, "KNIGHT", r.side)
            ELSE g
      cannons(g2) == Len(SelectSeq(my_units(g2), LAMBDA id : U(g2, id).unit_type = "CANNON"))
      max_cannons == 1 + (aggression(g) * 3) \div 10
      Cannon(g2) == IF military_count >= 4 /\ cannons(g2) < max_cannons /\ r.can
                    THEN _try_train_unit(g2, "CANNON", r.side) ELSE g2
      attack_threshold == Max(3, (50 - aggression(g) * 3) \div 10)
      can_attack == IF g.ai_bot.difficulty = "EASY"
                    THEN military_count >= attack_threshold
                    ELSE military_count >= attack_threshold
                         /\ military_count > enemy_military_count
      Attack(g2) == IF can_attack /\ g2.ai_bot.state # "defending"
                    THEN _choose_attack_target([g2 EXCEPT !.ai_bot.state = "attacking"], r)
                    ELSE g2
  IN  Attack(Cannon(g1))

\* AIBot.think
think(g, r) ==
  _military_decisions(_economic_decisions(_assign_workers(_assess_threats(g)), r), r)

\* AIBot._find_nearest_enemy: min() keeps the first of equally near units.
_find_nearest_enemy(g, u) ==
  LET Each(id) == TRUE
      Dist(id) == distance_to(u, U(g, id).x)
  IN  NearestWhere(enemy_units(g), Each, Dist)

\* AIBot._find_building_at
_find_building_at(g, pos) ==
  LET Near(id) == Abs(B(g, id).x - pos) < Cm(100)
  IN  FirstWhere(enemy_buildings(g), Near)

\* A unit reference that is set and whose unit is alive.
ValidUnit(g, ref) == ref # None /\ is_alive(U(g, ref))

\* AIBot._execute_unit_attack: the unit afterwards.
_execute_unit_attack(g, u, target_pos) ==
  LET nearest_enemy == _find_nearest_enemy(g, u)
      dist_to_nearest == distance_to(u, U(g, nearest_enemy).x)
      should_retarget ==
        IF dist_to_nearest < attack_range(u) + Cm(50) THEN TRUE
        ELSE IF u.target_building # None /\ dist_to_nearest < Cm(150) THEN TRUE
        ELSE IF ValidUnit(g, u.target_unit)
        THEN dist_to_nearest * 10 < distance_to(u, U(g, u.target_unit).x) * 6
        ELSE dist_to_nearest < Cm(200)
      target_building == _find_building_at(g, target_pos)
  IN  IF nearest_enemy # None /\ should_retarget
      THEN set_attack_target(u, U(g, nearest_enemy))
      ELSE IF ValidUnit(g, u.target_unit) THEN u
      ELSE IF u.target_building # None /\ ~is_destroyed(B(g, u.target_building)) THEN u
      ELSE IF target_pos = None THEN u
      ELSE IF target_building # None THEN set_building_target(u, B(g, target_building))
      ELSE set_move_target(u, target_pos)

\* The loop body of AIBot._execute_gather_phase: the unit afterwards.
GatherOne(g, u) ==
  LET nearest_enemy == _find_nearest_enemy(g, u)
      rally == g.ai_bot.rally_point
  IN  IF ValidUnit(g, u.target_unit)
         /\ distance_to(u, U(g, u.target_unit).x) < attack_range(u) + Cm(100)
      THEN u
      ELSE IF nearest_enemy # None
              /\ distance_to(u, U(g, nearest_enemy).x) < attack_range(u) + Cm(50)
      THEN set_attack_target(u, U(g, nearest_enemy))
      ELSE IF distance_to(u, rally) > Cm(80) THEN set_move_target(u, rally)
      ELSE IF u.target_x # None /\ u.target_unit = None THEN clear_targets(u)
      ELSE u

\* Applies F to the units of ids, which F does not look at through g.
MapUnits(g, ids, F(_)) ==
  [g EXCEPT !.unit = [id \in DOMAIN @ |-> IF id \in ids THEN F(@[id]) ELSE @[id]]]

\* AIBot._execute_gather_phase
_execute_gather_phase(g) ==
  LET Step(u) == GatherOne(g, u)
      g1 == MapUnits(g, Range(military_units(g)), Step)
  IN  IF ~_is_army_gathered(g1) THEN g1
      ELSE LET g2 == NoteGathered([g1 EXCEPT !.ai_bot.army_gathered = TRUE])
           IN  IF _should_use_flanking(g2) THEN _setup_flanking_attack(g2) ELSE g2

\* AIBot._execute_flanking_attack.  A flanker further than 100 from its flank
\* point heads for it, otherwise for the main target.  After the three groups
\* have their orders, set(left + right + main) is built from Unit objects: Unit
\* is a dataclass with eq and without hash, the list holds the two flankers at
\* least, so the call raises TypeError and the units not yet in a group are
\* never reached.
_execute_flanking_attack(g) ==
  LET Live(s) == SelectSeq(s, LAMBDA id : is_alive(U(g, id)) /\ InUnits(g, id))
      left  == Live(g.ai_bot.flank_units_left)
      right == Live(g.ai_bot.flank_units_right)
      main  == Live(g.ai_bot.main_force_units)
      g1 == [g EXCEPT !.ai_bot.flank_units_left = left,
                      !.ai_bot.flank_units_right = right,
                      !.ai_bot.main_force_units = main]
      grouped == Range(left) \cup Range(right) \cup Range(main)
      Goal(u) ==
        IF u.uid \in Range(left)
        THEN IF distance_to(u, g.ai_bot.flank_target_left) > Cm(100)
             THEN g.ai_bot.flank_target_left ELSE g.ai_bot.attack_target
        ELSE IF u.uid \in Range(right)
        THEN IF distance_to(u, g.ai_bot.flank_target_right) > Cm(100)
             THEN g.ai_bot.flank_target_right ELSE g.ai_bot.attack_target
        ELSE g.ai_bot.attack_target
      Step(u) == _execute_unit_attack(g, u, Goal(u))
  IN  IF Len(left) + Len(right) < 2
      THEN [g1 EXCEPT !.ai_bot.flanking_active = FALSE]
      ELSE Raise(MapUnits(g1, grouped, Step), "TypeError")

\* AIBot._execute_defend_orders
_execute_defend_orders(g) ==
  IF my_castle(g) = None THEN g
  ELSE LET cx == B(g, my_castle(g)).x
           Near(id) == distance_to(U(g, id), cx) < Cm(400)
           Dist(id) == distance_to(U(g, id), cx)
           nearest  == NearestWhere(enemy_units(g), Near, Dist)
           Step(u)  == set_attack_target(u, U(g, nearest))
       IN  IF military_units(g) = <<>> THEN g
           ELSE IF nearest # None THEN MapUnits(g, Range(military_units(g)), Step)
           ELSE [g EXCEPT !.ai_bot.state = "building"]

\* AIBot._execute_defense_line; only the x coordinate of the posts is kept.
_execute_defense_line(g) ==
  LET military == military_units(g)
      posts == _calculate_defense_positions(g)
      Index(id) == CHOOSE i \in DOMAIN military : military[i] = id
      Step(u) ==
        LET Near(id) == distance_to(u, U(g, id).x) < Cm(250)
            Dist(id) == distance_to(u, U(g, id).x)
            nearest  == NearestWhere(enemy_units(g), Near, Dist)
            post     == posts[((Index(u.uid) - 1) % Len(posts)) + 1]
        IN  IF ValidUnit(g, u.target_unit) THEN u
            ELSE IF nearest # None THEN set_attack_target(u, U(g, nearest))
            ELSE IF distance_to(u, post) > Cm(30) THEN set_move_target(u, post)
            ELSE u
  IN  IF my_castle(g) = None \/ military = <<>> THEN g
      ELSE MapUnits(g, Range(military), Step)

\* AIBot._execute_attack_orders
_execute_attack_orders(g) ==
  LET Step(u) == _execute_unit_attack(g, u, g.ai_bot.attack_target)
  IN  IF ~g.ai_bot.army_gathered /\ g.ai_bot.rally_point # None
      THEN _execute_gather_phase(g)
      ELSE IF g.ai_bot.flanking_active THEN _execute_flanking_attack(g)
      ELSE MapUnits(g, Range(military_units(g)), Step)

\* AIBot.execute_orders
execute_orders(g) ==
  IF g.ai_bot.state = "attacking" /\ g.ai_bot.attack_target # None
  THEN _execute_attack_orders(g)
  ELSE IF g.ai_bot.state = "defending" THEN _execute_defend_orders(g)
  ELSE IF g.ai_bot.state = "building" /\ g.ai_bot.difficulty # "EASY"
  THEN _execute_defense_line(g)
  ELSE g

\* AIBot._apply_resource_bonus: every 10 seconds.
_apply_resource_bonus(g, dt) ==
  LET t == g.ai_bot.resource_bonus_timer + dt
      extra == DIFFICULTY_SETTINGS(g.ai_bot.difficulty).extra
  IN  IF t < 10 * 60 THEN [g EXCEPT !.ai_bot.resource_bonus_timer = t]
      ELSE [g EXCEPT !.ai_bot.resource_bonus_timer = 0,
                     !.enemy_resources.gold = @ + extra,
                     !.enemy_resources.food = @ + extra \div 2]

\* Whether AIBot.update will think in a frame of length dt.
Thinks(g, dt) ==
  g.ai_bot.think_timer + dt >= DIFFICULTY_SETTINGS(g.ai_bot.difficulty).think_interval

\* AIBot.update
AIUpdate(g, dt, r) ==
  LET g1 == IF Thinks(g, dt) THEN think([g EXCEPT !.ai_bot.think_timer = 0], r)
            ELSE [g EXCEPT !.ai_bot.think_timer = @ + dt]
  IN  execute_orders(_apply_resource_bonus(g1, dt))

\* ------------------------------------------------------------ input handlers

\* Game._finish_selection (MOUSEBUTTONUP at end_pos).  A drag shorter than 10
\* selects the one thing under its start, a longer one every player unit whose
\* rectangle the box meets.
_finish_selection(g, end_pos) ==
  LET start == g.selection_start
      x1 == Min(start, end_pos)
      x2 == Max(start, end_pos)
      g0 == [g EXCEPT !.selected_units = <<>>, !.selected_building = None]
      UnitAt(id) == U(g, id).team = "PLAYER"
                    /\ RectHas(U(g, id).x, UnitSize(U(g, id)) \div 100, start)
      BuildingAt(id) == B(g, id).team = "PLAYER"
                        /\ RectHas(B(g, id).x, BuildingSize(B(g, id).building_type), start)
      InBox(id) == /\ U(g, id).team = "PLAYER"
                   /\ x1 < RectLeft(U(g, id).x, UnitSize(U(g, id)) \div 100)
                             + UnitSize(U(g, id))
                   /\ RectLeft(U(g, id).x, UnitSize(U(g, id)) \div 100) < x2
      unit == FirstWhere(g.units, UnitAt)
      building == FirstWhere(g.buildings, BuildingAt)
  IN  IF start = None THEN g
      ELSE IF x2 - x1 < Cm(10)
      THEN IF unit # None THEN [g0 EXCEPT !.selected_units = <<unit>>]
           ELSE IF building # None THEN [g0 EXCEPT !.selected_building = building]
           ELSE g0
      ELSE [g0 EXCEPT !.selected_units = SelectSeq(g.units, InBox)]

\* What h_cmd keeps of a command given to a peasant that had an assigned
\* building: who gave it, its kind, and the peasant as the command left it.
Commanded(producer, kind, u) ==
  [producer |-> producer, kind |-> kind, uid |-> u.uid,
   assigned_building |-> u.assigned_building, is_working |-> u.is_working,
   target_x |-> u.target_x]

\* Game._issue_command (right click at world_pos with units selected).  h_goal
\* keeps, for each unit whose last command was a plain move, where it was sent.
_issue_command(g, world_pos) ==
  LET EnemyAt(id) == U(g, id).team = "ENEMY"
                     /\ RectHas(U(g, id).x, UnitSize(U(g, id)) \div 100, world_pos)
      BuildingAt(id) == RectHas(B(g, id).x, BuildingSize(B(g, id).building_type), world_pos)
      target_unit == FirstWhere(g.units, EnemyAt)
      hit == IF target_unit # None THEN None ELSE FirstWhere(g.buildings, BuildingAt)
      target_building    == IF hit # None /\ B(g, hit).team = "ENEMY" THEN hit ELSE None
      under_construction == IF hit # None /\ B(g, hit).team # "ENEMY" /\ ~B(g, hit).completed
                            THEN hit ELSE None
      friendly_building  == IF hit # None /\ B(g, hit).team # "ENEMY" /\ B(g, hit).completed
                            THEN hit ELSE None
      Order(u0) ==
        LET peasant == u0.unit_type = "PEASANT"
            u1 == IF peasant /\ u0.assigned_building # None
                  THEN unassign_from_building(u0) ELSE u0
            u  == IF peasant /\ u1.constructing_building # None
                  THEN [u1 EXCEPT !.constructing_building = None] ELSE u1
        IN  IF g.attack_move_mode THEN set_attack_move_target(u, world_pos)
            ELSE IF target_unit # None THEN set_attack_target(u, U(g, target_unit))
            ELSE IF target_building # None THEN set_building_target(u, B(g, target_building))
            ELSE IF under_construction # None /\ peasant
            THEN set_move_target([u EXCEPT !.constructing_building = under_construction],
                                 B(g, under_construction).x)
            ELSE IF friendly_building # None /\ peasant
            THEN assign_to_building(u, B(g, friendly_building))
            ELSE set_move_target(u, world_pos)
      Kind(u0) ==
        IF g.attack_move_mode THEN "attack_move"
        ELSE IF target_unit # None THEN "attack_unit"
        ELSE IF target_building # None THEN "attack_building"
        ELSE IF under_construction # None /\ u0.unit_type = "PEASANT" THEN "construct"
        ELSE IF friendly_building # None /\ u0.unit_type = "PEASANT" THEN "assign"
        ELSE "move"
      assigned == {id \in Range(g.selected_units) :
                     U(g, id).unit_type = "PEASANT" /\ U(g, id).assigned_building # None}
  IN  [MapUnits(g, Range(g.selected_units), Order)
         EXCEPT !.attack_move_mode = FALSE,
                !.h_cmd = @ \cup {Commanded("input", Kind(U(g, id)), Order(U(g, id))) :
                                    id \in assigned},
                !.h_goal = {v \in @ : v.uid \notin Range(g.selected_units)}
                             \cup {[uid |-> id, x |-> world_pos] :
                                     id \in {i \in Range(g.selected_units) :
                                                Kind(U(g, i)) = "move"}}]

\* What an order to train or to place did: whether the player's resources
\* covered the cost, the resources before and after, and how many entities it
\* added to the lists.
Ordered(g, g2, kind, t, cost) ==
  [g2 EXCEPT !.h_order = @ \cup
     {[kind |-> kind, type |-> t, covered |-> can_afford(g.player_resources, cost),
       before |-> g.player_resources, after |-> g2.player_resources,
       created |-> (Len(g2.units) - Len(g.units))
                     + (Len(g2.buildings) - Len(g.buildings))]}]

_train_unit_on_credit(g, unit_type, side) ==
  LET IsCastle(id) == B(g, id).building_type = "CASTLE" /\ B(g, id).team = "PLAYER"
      castle == FirstWhere(g.buildings, IsCastle)
      g2 == IF castle = None THEN g
            ELSE AddUnit([g EXCEPT !.player_resources = spend(@, UNIT_COSTS(unit_type)).res],
                         B(g, castle).x + side * Cm(80), unit_type, "PLAYER")
  IN  Ordered(g, g2, "train", unit_type, UNIT_COSTS(unit_type))

\* Game._train_unit; side stands for the random spawn angle (0 or pi).
_train_unit(g, unit_type, side) ==
  LET IsCastle(id) == B(g, id).building_type = "CASTLE" /\ B(g, id).team = "PLAYER"
      castle == FirstWhere(g.buildings, IsCastle)
      g2 == IF ~can_afford(g.player_resources, UNIT_COSTS(unit_type)) THEN g
            ELSE IF castle = None THEN g
            ELSE AddUnit([g EXCEPT !.player_resources = spend(@, UNIT_COSTS(unit_type)).res],
                         B(g, castle).x + side * Cm(80), unit_type, "PLAYER")
  IN  Ordered(g, g2, "train", unit_type, UNIT_COSTS(unit_type))

\* Game._can_place_building: the new rectangle must miss every building's
\* rectangle inflated by 10 and lie inside the map.
_can_place_building(g, world_pos, t) ==
  LET w == BuildingSize(t)
      left == RectLeft(world_pos, w)
      Clash(id) ==
        LET s  == BuildingSize(B(g, id).building_type)
            el == RectLeft(B(g, id).x, s) - Cm(5)
        IN  left < el + Cm(s + 10) /\ el < left + Cm(w)
  IN  /\ FirstWhere(g.buildings, Clash) = None
      /\ ~(world_pos - Cm(w \div 2) < 0 \/ world_pos + Cm(w \div 2) > Cm(MAP_WIDTH))

\* Game._place_building (grid_snap stays at its default, off).
_place_building(g, world_pos) ==
  LET t == g.placing_building
      g2 == IF ~_can_place_building(g, world_pos, t) THEN g
            ELSE IF ~can_afford(g.player_resources, BUILDING_COSTS(t))
            THEN [g EXCEPT !.placing_building = "NONE"]
            ELSE [AddBuilding([g EXCEPT !.player_resources =
                                           spend(@, BUILDING_COSTS(t)).res],
                              [Building(world_pos, t, "PLAYER", 0)
                                 EXCEPT !.completed = FALSE, !.build_progress = 0])
                    EXCEPT !.placing_building = "NONE"]
  IN  IF t = "NONE" THEN g
      ELSE Ordered(g, g2, "place", t, BUILDING_COSTS(t))

\* int(cost * (DECONSTRUCT_REFUND * health / max_health)), DECONSTRUCT_REFUND = 0.7.
Refund(cost, b) == Trunc(cost * 7 * b.health, 10 * BUILDING_STATS(b.building_type).health)

\* What a call of _deconstruct_building did: the building it was given, and
\* whether the building list, the units and the player's resources are as
\* they were.
Deconstructed(g, g2, bid) ==
  [g2 EXCEPT !.h_decon = @ \cup
     {[uid |-> bid, type |-> B(g, bid).building_type,
       same |-> /\ g2.buildings = g.buildings
                /\ g2.unit = g.unit
                /\ g2.player_resources = g.player_resources]}]

\* A plausible slip: the castle is taken down like any other building.
_deconstruct_building_any(g, bid) ==
  LET b    == B(g, bid)
      cost == BUILDING_COSTS(b.building_type)
      g1 == [g EXCEPT !.player_resources.gold = @ + Refund(CostGet(cost, "gold"), b),
                      !.player_resources.wood = @ + Refund(CostGet(cost, "wood"), b)]
      Free(u0) ==
        LET u1 == IF u0.assigned_building = bid THEN unassign_from_building(u0) ELSE u0
        IN  IF u1.constructing_building = bid
            THEN [u1 EXCEPT !.constructing_building = None] ELSE u1
      g2 == MapUnits(g1, Range(g1.units), Free)
  IN  Deconstructed(g,
        IF ~InBuildings(g2, bid) THEN Raise(g2, "ValueError")
        ELSE [g2 EXCEPT !.buildings = Remove(@, bid),
                        !.selected_building = IF @ = bid THEN None ELSE @],
        bid)

\* Game._deconstruct_building
_deconstruct_building(g, bid) ==
  LET b    == B(g, bid)
      cost == BUILDING_COSTS(b.building_type)
      g1 == [g EXCEPT !.player_resources.gold = @ + Refund(CostGet(cost, "gold"), b),
                      !.player_resources.wood = @ + Refund(CostGet(cost, "wood"), b)]
      Free(u0) ==
        LET u1 == IF u0.assigned_building = bid THEN unassign_from_building(u0) ELSE u0
        IN  IF u1.constructing_building = bid
            THEN [u1 EXCEPT !.constructing_building = None] ELSE u1
      g2 == MapUnits(g1, Range(g1.units), Free)
  IN  Deconstructed(g,
        IF b.building_type = "CASTLE" THEN g
        ELSE IF ~InBuildings(g2, bid) THEN Raise(g2, "ValueError")  \* x not in list
        ELSE [g2 EXCEPT !.buildings = Remove(@, bid),
                        !.selected_building = IF @ = bid THEN None ELSE @],
        bid)

\* Game._handle_network_messages: msgs is what get_messages() returned.
RECURSIVE _handle_network_messages(_, _)
_handle_network_messages(g, msgs) ==
  IF msgs = <<>> THEN g
  ELSE LET m == Head(msgs)
           Move(u) == IF u.team = "ENEMY" THEN set_move_target(u, m.target) ELSE u
           assigned == {id \in Range(g.units) \cap m.units :
                          /\ U(g, id).team = "ENEMY"
                          /\ U(g, id).unit_type = "PEASANT"
                          /\ U(g, id).assigned_building # None}
       IN  _handle_network_messages(
             IF m.command = "move"
             THEN [MapUnits(g, Range(g.units) \cap m.units, Move)
                     EXCEPT !.h_cmd = @ \cup {Commanded("network", "move", Move(U(g, id))) :
                                                id \in assigned}]
             ELSE g,
             Tail(msgs))

\* --------------------------------------------------------- Game._update_game

\* One frame.  in carries what the frame draws from outside: dt (frames of
\* 1/60 s since the last update), the damage jitter p, the tower hit roll, the
\* AI's random draws r and the messages get_messages() returns.  Drawing and the
\* blood effects change nothing that is modelled.
\* The stages of _update_game before the units move: the AI's update against
\* the AI, the network messages in multiplayer.
BeforeUnits(g, in) ==
  IF ~g.is_multiplayer THEN AIUpdate(Mark(g, "ai"), in.dt, in.r)
  ELSE _handle_network_messages(Mark(g, "network"), in.msgs)

\* The stages of _update_game after the units moved; an exception raised in
\* _update_units leaves _update_game at once.
AfterUnits(g, in) ==
  IF ~Ok(g) THEN g
  ELSE LET g4 == _update_unit_collisions(Mark(g, "collision"), in.dt)
           g5 == _update_workers(Mark(g4, "workers"))
           g6 == _update_construction(Mark(g5, "construction"), in.dt)
           g7 == _update_tower_attacks(Mark(g6, "towers"))
           g8 == _update_projectiles(Mark(g7, "projectiles"), in.dt, in.roll)
           g9 == _update_resources(Mark(g8, "resources"), in.dt)
           g10 == _update_food_consumption(Mark(g9, "food"), in.dt)
           g11 == _update_healing(Mark(g10, "healing"), in.dt)
       IN  _check_game_over(Mark(g11, "game_over"))

_update_game(g, in) ==
  LET g0 == [g EXCEPT !.h_died = {}, !.h_razed = {}, !.h_food = {}, !.h_trace = <<>>, !.h_site = {},
                      !.h_blow = {}, !.h_heal = {},
                      !.now = @ + in.dt]
      g2 == BeforeUnits(g0, in)
      g3 == _update_units(g2, in.p, in.dt)
  IN  AfterUnits(g3, in)

\* A plausible slip: the simulation runs whatever the state.
update_always(g, in) == _update_game(g, in)

\* Game.update: the simulation runs only in state PLAYING (the branches for
\* CONNECTING and MULTIPLAYER_LOBBY belong to the menus).
update(g, in) == IF g.state = "PLAYING" THEN _update_game(g, in) ELSE g

\* ------------------------------------------------------------ Game.init_game

\* The heap built from a list of records with distinct uids.
Heap(objs) == [id \in {objs[i].uid : i \in DOMAIN objs} |->
                 objs[CHOOSE i \in DOMAIN objs : objs[i].uid = id]]

Uids(objs) == [i \in DOMAIN objs |-> objs[i].uid]

\* A Game with the given lists, otherwise as __init__ and init_game leave it.
GameWith(units, buildings, vs_ai, difficulty) ==
  [units |-> Uids(units), unit |-> Heap(units),
   buildings |-> Uids(buildings), bld |-> Heap(buildings),
   projectiles |-> <<>>,
   player_resources |-> Resources(STARTING_GOLD, STARTING_FOOD, STARTING_WOOD),
   enemy_resources |-> Resources(STARTING_GOLD, STARTING_FOOD, STARTING_WOOD),
   selected_units |-> <<>>, selected_building |-> None, selection_start |-> None,
   placing_building |-> "NONE", attack_move_mode |-> FALSE,
   resource_timer |-> 0, food_timer |-> 0, heal_timer |-> 0,
   player_healing_enabled |-> FALSE, enemy_healing_enabled |-> FALSE,
   uid_counter |-> Len(units) + Len(buildings),
   state |-> "PLAYING", now |-> 180, error |-> "NONE",
   is_multiplayer |-> ~vs_ai, ai_bot |-> AIBot(difficulty),
   h_died |-> {}, h_removed |-> {}, h_stale |-> FALSE, h_gather |-> {},
   h_spend |-> <<>>, h_hits |-> 0, h_razed |-> {},
   h_cmd |-> {}, h_shots |-> <<>>, h_food |-> {}, h_order |-> {}, h_decon |-> {}, h_gen |-> {},
   h_trace |-> <<>>, h_site |-> {}, h_blow |-> {}, h_heal |-> {}, h_goal |-> {},
   h_built |-> {}, h_try |-> {}, h_ball |-> {},
   h_issue |-> [cmd |-> "none", arg |-> None, count |-> 0, once |-> << >>]]

\* Game.init_game: the player's castle, three peasants and a knight; the
\* enemy's castle; against the AI also its three peasants and its knight.
init_game(vs_ai, difficulty) ==
  LET player == << Unit(Cm(350), "PEASANT", "PLAYER", 2), Unit(Cm(390), "PEASANT", "PLAYER", 3),
                   Unit(Cm(430), "PEASANT", "PLAYER", 4), Unit(Cm(300), "KNIGHT", "PLAYER", 5) >>
      enemy  == << Unit(Cm(MAP_WIDTH - 350), "PEASANT", "ENEMY", 7),
                   Unit(Cm(MAP_WIDTH - 390), "PEASANT", "ENEMY", 8),
                   Unit(Cm(MAP_WIDTH - 430), "PEASANT", "ENEMY", 9),
                   Unit(Cm(MAP_WIDTH - 300), "KNIGHT", "ENEMY", 10) >>
  IN  GameWith(IF vs_ai THEN player \o enemy ELSE player,
               << Building(Cm(300), "CASTLE", "PLAYER", 1),
                  Building(Cm(MAP_WIDTH - 300), "CASTLE", "ENEMY", 6) >>,
               vs_ai, difficulty)

\* ---------------------------------------------------------------- the game

\* Bounds of the exploration.
MaxTicks == 3

MaxInputs == 2

\* Frame lengths, in frames of 1/60 s: update() takes dt from clock.tick(FPS),
\* one frame when the machine keeps up.
DtSet == {1}

\* random.uniform(0.8, 1.2) in thousandths: the two ends.
JitterSet == {800, 1200}

\* The AI's draws in one think(): the two random.random() tests of
\* _military_decisions, the one of _choose_attack_target, random.choice, and the
\* spawn side and distance (one draw stands for all the spawns of the think).
RandSet ==
  [cav : BOOLEAN, can : BOOLEAN, castle_first : BOOLEAN, pick : {0, 1},
   side : {-1, 1}, bdist : {Cm(200)}]

NoRand ==
  [cav |-> FALSE, can |-> FALSE, castle_first |-> FALSE, pick |-> 0,
   side |-> 1, bdist |-> Cm(200)]

\* A mid-game position: an enemy knight has reached a wounded player peasant
\* far from both castles, and a knight the player trained since is on its way
\* to attack the raider; the player's stores are spent.
ScnRaid(difficulty) ==
  LET W == [Unit(Cm(1000), "PEASANT", "PLAYER", 2) EXCEPT !.health = 10]
      K == set_attack_target(Unit(Cm(1020), "KNIGHT", "ENEMY", 10), W)
      D == set_attack_target(Unit(Cm(900), "KNIGHT", "PLAYER", 11), K)
  IN  [GameWith(<< W, K, D >>,
                << Building(Cm(300), "CASTLE", "PLAYER", 1),
                   Building(Cm(MAP_WIDTH - 300), "CASTLE", "ENEMY", 6) >>,
                TRUE, difficulty)
         EXCEPT !.uid_counter = 11,
                !.player_resources = Resources(0, 0, 0),
                !.food_timer = FOOD_CONSUMPTION_INTERVAL - 1,
                !.ai_bot.state = "attacking",
                !.ai_bot.attack_target = Cm(300),
                !.ai_bot.army_gathered = TRUE]

\* A mid-game position: a wounded enemy knight is breaking a player house that
\* has eight health left, beside a farm the player has founded but not built;
\* two of the player's peasants stand idle by the castle, and the ball the
\* player's cannon fired at the knight 39 frames ago is about to land.
ScnSiege ==
  LET H == [Building(Cm(600), "HOUSE", "PLAYER", 11) EXCEPT !.health = 8]
      F == [Building(Cm(800), "FARM", "PLAYER", 12)
              EXCEPT !.completed = FALSE, !.build_progress = 0]
      K == [set_building_target(Unit(Cm(640), "KNIGHT", "ENEMY", 10), H)
              EXCEPT !.health = 30]
      C == [set_attack_target(Unit(Cm(440), "CANNON", "PLAYER", 13), K)
              EXCEPT !.last_attack = 180 - 39]
  IN  [GameWith(<< Unit(Cm(250), "PEASANT", "PLAYER", 2),
                   Unit(Cm(340), "PEASANT", "PLAYER", 3),
                   Unit(Cm(300), "KNIGHT", "PLAYER", 5), K, C >>,
                << Building(Cm(300), "CASTLE", "PLAYER", 1),
                   Building(Cm(MAP_WIDTH - 300), "CASTLE", "ENEMY", 6), H, F >>,
                TRUE, "NORMAL")
         EXCEPT !.uid_counter = 13,
                !.projectiles = << Projectile(Cm(440) + 39 * ProjectileStep([speed |-> 300], 1),
                                              Cm(640), 300, MeleeDamage(C, K, 1000),
                                              10, None, "PLAYER", FALSE) >>,
                !.player_resources = Resources(0, 200, 0),
                !.ai_bot.state = "attacking",
                !.ai_bot.attack_target = Cm(600),
                !.ai_bot.rally_point = Cm(MAP_WIDTH - 300 - 300),
                !.ai_bot.army_gathered = TRUE]

\* A mid-game position: a player peasant works at a damaged house, and the
\* ball an enemy cannon fired at the house 45 frames ago is about to land.
ScnBombard ==
  LET H == [Building(Cm(600), "HOUSE", "PLAYER", 11) EXCEPT !.health = 50]
      P == [Unit(Cm(600), "PEASANT", "PLAYER", 2)
              EXCEPT !.assigned_building = 11, !.is_working = TRUE]
      X == [set_building_target(Unit(Cm(830), "CANNON", "ENEMY", 10), H)
              EXCEPT !.last_attack = 180 - 45]
  IN  [GameWith(<< P, X >>,
                << Building(Cm(300), "CASTLE", "PLAYER", 1),
                   Building(Cm(MAP_WIDTH - 300), "CASTLE", "ENEMY", 6), H >>,
                TRUE, "NORMAL")
         EXCEPT !.uid_counter = 11,
                !.projectiles = << Projectile(Cm(830) - 45 * ProjectileStep([speed |-> 300], 1),
                                              Cm(600), 300,
                                              (UNIT_STATS("CANNON").attack * 12) \div 10,
                                              None, 11, "ENEMY", FALSE) >>,
                !.ai_bot.state = "attacking",
                !.ai_bot.attack_target = Cm(600),
                !.ai_bot.rally_point = Cm(MAP_WIDTH - 300 - 300),
                !.ai_bot.army_gathered = TRUE]

\* A late position: a knight of the other team stands at the castle of `who`
\* and attacks it, the castle having `health` left (against the player's
\* castle the AI is on the attack); a peasant of each team is walking across
\* the map.
ScnFall(who, health) ==
  LET home == IF who = "PLAYER" THEN Cm(300) ELSE Cm(MAP_WIDTH - 300)
      C    == [Building(home, "CASTLE", who, IF who = "PLAYER" THEN 1 ELSE 6)
                 EXCEPT !.health = health]
      K    == set_building_target(
                Unit(home + Cm(30), "KNIGHT", IF who = "PLAYER" THEN "ENEMY" ELSE "PLAYER", 10),
                C)
  IN  [GameWith(<< set_move_target(Unit(Cm(800), "PEASANT", "PLAYER", 2), Cm(1100)),
                   set_move_target(Unit(Cm(1500), "PEASANT", "ENEMY", 7), Cm(1000)), K >>,
                IF who = "PLAYER"
                THEN << C, Building(Cm(MAP_WIDTH - 300), "CASTLE", "ENEMY", 6) >>
                ELSE << Building(Cm(300), "CASTLE", "PLAYER", 1), C >>,
                TRUE, "NORMAL")
         EXCEPT !.uid_counter = 10,
                !.enemy_resources = Resources(0, 200, 0),
                !.ai_bot.state = IF who = "PLAYER" THEN "attacking" ELSE @,
                !.ai_bot.attack_target = IF who = "PLAYER" THEN home ELSE @,
                !.ai_bot.army_gathered = (who = "PLAYER")]

\* A match against the AI two seconds less a frame after init_game, nobody
\* having done anything: the AI's first think is due on the next frame.
ScnOpening ==
  [init_game(TRUE, "NORMAL")
     EXCEPT !.now = @ + 119,
            !.resource_timer = 119, !.food_timer = 119, !.heal_timer = 119,
            !.ai_bot.resource_bonus_timer = 119,
            !.ai_bot.think_timer = DIFFICULTY_SETTINGS("NORMAL").think_interval - 1]

\* A mid-game position, a frame before a resource tick: the player has a farm
\* with a peasant at work and has placed a second farm, not yet built; both
\* peasants and the knight are selected.
ScnWorks ==
  LET F1 == Building(Cm(600), "FARM", "PLAYER", 11)
      F2 == [Building(Cm(800), "FARM", "PLAYER", 12)
               EXCEPT !.completed = FALSE, !.build_progress = 0]
  IN  [GameWith(<< assign_to_building(Unit(Cm(600), "PEASANT", "PLAYER", 2), F1),
                   Unit(Cm(700), "PEASANT", "PLAYER", 3),
                   Unit(Cm(300), "KNIGHT", "PLAYER", 5) >>,
                << Building(Cm(300), "CASTLE", "PLAYER", 1),
                   Building(Cm(MAP_WIDTH - 300), "CASTLE", "ENEMY", 6), F1, F2 >>,
                TRUE, "NORMAL")
         EXCEPT !.uid_counter = 12,
                !.selected_units = << 2, 3, 5 >>,
                !.resource_timer = RESOURCE_TICK_INTERVAL - 1]

\* The positions Init draws from.
Scenarios ==
  {init_game(TRUE, "NORMAL"), init_game(FALSE, "NORMAL"),
   ScnRaid("EASY"), ScnSiege, ScnBombard, ScnFall("PLAYER", 5),
   ScnOpening, ScnWorks}

vars == <<game, net, ticks, inputs>>

Init ==
  /\ game \in Scenarios
  /\ net = <<>>
  /\ ticks = 0
  /\ inputs = 0

Playing == game.state = "PLAYING" /\ Ok(game)

\* random.random() < hit_chance, drawn when a tower's projectile lands.
RollSet ==
  IF \E id \in Range(game.buildings) : B(game, id).building_type = "TOWER"
  THEN BOOLEAN ELSE {TRUE}

\* Game.update in state PLAYING.
Tick ==
  /\ Playing
  /\ ticks < MaxTicks
  /\ \E dt \in DtSet, p \in JitterSet, roll \in RollSet :
       \E r \in IF ~game.is_multiplayer /\ Thinks(game, dt) THEN RandSet ELSE {NoRand} :
          game' = _update_game(game, [dt |-> dt, p |-> p, roll |-> roll, r |-> r,
                                      msgs |-> net])
  /\ net' = IF game.is_multiplayer THEN <<>> ELSE net
  /\ ticks' = ticks + 1
  /\ UNCHANGED inputs

\* Where the mouse goes: onto a unit or a building of the lists, or onto open
\* ground.
PointSet == {U(game, id).x : id \in Range(game.units)}
              \cup {B(game, id).x : id \in Range(game.buildings)}
              \cup {Cm(900)}

Input == Playing /\ inputs < MaxInputs /\ game.selection_start = None

\* MOUSEBUTTONDOWN, button 1, on the map: the selection starts, and a pending
\* placement is carried out by _handle_game_input.
MouseDown ==
  /\ Input
  /\ \E pt \in PointSet :
       game' = IF game.placing_building # "NONE"
               THEN _place_building([game EXCEPT !.selection_start = pt], pt)
               ELSE [game EXCEPT !.selection_start = pt]
  /\ inputs' = inputs + 1
  /\ UNCHANGED <<net, ticks>>

\* MOUSEBUTTONUP, button 1: where the button went down, or after a drag to the
\* right edge of the map.
MouseUp ==
  /\ Playing
  /\ game.selection_start # None
  /\ \E end_pos \in {game.selection_start, Cm(MAP_WIDTH)} :
       game' = [_finish_selection(game, end_pos) EXCEPT !.selection_start = None]
  /\ UNCHANGED <<net, ticks, inputs>>

\* MOUSEBUTTONDOWN, button 3.
RightClick ==
  /\ Input
  /\ game.selected_units # <<>>
  /\ \E pt \in PointSet : game' = _issue_command(game, pt)
  /\ inputs' = inputs + 1
  /\ UNCHANGED <<net, ticks>>

\* KEYDOWN h, f, t: the building to place.
KeyPlace ==
  /\ Input
  /\ \E t \in {"HOUSE", "FARM", "TOWER"} : game' = [game EXCEPT !.placing_building = t]
  /\ inputs' = inputs + 1
  /\ UNCHANGED <<net, ticks>>

\* KEYDOWN p, k, c, n: _train_unit.
KeyTrain ==
  /\ Input
  /\ \E t \in UnitTypes, side \in {-1, 1} : game' = _train_unit(game, t, side)
  /\ inputs' = inputs + 1
  /\ UNCHANGED <<net, ticks>>

\* KEYDOWN a: attack-move mode for the next command.
KeyAttackMove ==
  /\ Input
  /\ game.selected_units # <<>>
  /\ game' = [game EXCEPT !.attack_move_mode = TRUE]
  /\ inputs' = inputs + 1
  /\ UNCHANGED <<net, ticks>>

\* KEYDOWN s: stop.
KeyStop ==
  /\ Input
  /\ game' = [MapUnits(game, Range(game.selected_units), clear_targets)
                EXCEPT !.placing_building = "NONE", !.attack_move_mode = FALSE]
  /\ inputs' = inputs + 1
  /\ UNCHANGED <<net, ticks>>

\* The heal button of the HUD: _toggle_player_healing.  The click is a left
\* click too, and its release over the HUD selects nothing.
HealButton ==
  /\ Input
  /\ game' = [game EXCEPT !.player_healing_enabled = ~@,
                          !.selected_units = <<>>, !.selected_building = None]
  /\ inputs' = inputs + 1
  /\ UNCHANGED <<net, ticks>>

\* KEYDOWN x: deconstruct the selected building.
KeyDeconstruct ==
  /\ Input
  /\ game.selected_building # None
  /\ B(game, game.selected_building).team = "PLAYER"
  /\ game' = _deconstruct_building(game, game.selected_building)
  /\ inputs' = inputs + 1
  /\ UNCHANGED <<net, ticks>>

\* KEYDOWN DELETE: the selected units leave the unit list.
KeyDelete ==
  /\ Input
  /\ game.selected_units # <<>>
  /\ game' = [game EXCEPT
       !.units = SelectSeq(@, LAMBDA id : id \notin Range(game.selected_units)),
       !.selected_units = <<>>]
  /\ inputs' = inputs + 1
  /\ UNCHANGED <<net, ticks>>

\* KEYDOWN ESCAPE: cancel the placement, or leave for the main menu.
KeyEscape ==
  /\ Input
  /\ game' = IF game.placing_building # "NONE"
             THEN [game EXCEPT !.placing_building = "NONE"]
             ELSE [game EXCEPT !.state = "MAIN_MENU"]
  /\ inputs' = inputs + 1
  /\ UNCHANGED <<net, ticks>>

\* NetworkManager._receive_loop: the peer's move command joins the queue.
Receive ==
  /\ Playing
  /\ game.is_multiplayer
  /\ Len(net) < 1
  /\ \E ids \in {{2}, {2, 5}}, pt \in {Cm(500), Cm(900)} :
       net' = Append(net, [command |-> "move", units |-> ids, target |-> pt])
  /\ UNCHANGED <<game, ticks, inputs>>

Next ==
  \/ Tick
  \/ MouseDown
  \/ MouseUp
  \/ RightClick
  \/ KeyPlace
  \/ KeyTrain
  \/ KeyAttackMove
  \/ KeyStop
  \/ HealButton
  \/ KeyDeconstruct
  \/ KeyDelete
  \/ KeyEscape
  \/ Receive

Spec == Init /\ [][Next]_vars

\* ------------------------------------------------------- the AI's campaigns

\* A mid-game position against the AI: its army of four cavalry and two
\* knights is about to be sent out, three of them standing where the rally
\* point will be and one knight at the castle; the other two cavalry stand at
\* `post`.  Its food has run out and the first `weak` cavalry are nearly dead.
\* The player holds a castle, a house, a farm and a knight that has come up to
\* the rally point.
ScnArmy(difficulty, post, weak) ==
  LET rally == Cm(MAP_WIDTH - 300 - 300)
      home  == Cm(MAP_WIDTH - 300)
  IN  [GameWith(<< Unit(rally - Cm(60), "KNIGHT", "PLAYER", 5),
                   Unit(home + Cm(50), "PEASANT", "ENEMY", 7),
                   [Unit(rally, "CAVALRY", "ENEMY", 10) EXCEPT !.health = 5],
                   [Unit(rally + Cm(40), "CAVALRY", "ENEMY", 11)
                      EXCEPT !.health = IF weak >= 2 THEN 5 ELSE @],
                   [Unit(post - Cm(20), "CAVALRY", "ENEMY", 12)
                      EXCEPT !.health = IF weak >= 3 THEN 5 ELSE @],
                   Unit(post + Cm(20), "CAVALRY", "ENEMY", 13),
                   Unit(rally - Cm(40), "KNIGHT", "ENEMY", 14),
                   Unit(home - Cm(60), "KNIGHT", "ENEMY", 15) >>,
                << Building(Cm(300), "CASTLE", "PLAYER", 1),
                   Building(home, "CASTLE", "ENEMY", 6),
                   Building(Cm(600), "HOUSE", "PLAYER", 8),
                   Building(Cm(800), "FARM", "PLAYER", 9) >>,
                TRUE, difficulty)
         EXCEPT !.uid_counter = 15,
                !.enemy_resources = Resources(200, 0, 0),
                !.food_timer = FOOD_CONSUMPTION_INTERVAL - 1,
                !.unit[7] = [@ EXCEPT !.assigned_building = 6, !.is_working = TRUE],
                !.ai_bot.think_timer =
                   DIFFICULTY_SETTINGS(difficulty).think_interval - 1]

\* Where the two cavalry stand: at the castle, or at the rally point.
PostSet == {Cm(MAP_WIDTH - 300), Cm(MAP_WIDTH - 300 - 300)}

\* How many cavalry starvation has brought to their last five health.
WeakSet == {1, 3}

InitAI ==
  /\ game \in {ScnArmy(d, post, weak) : d \in Difficulties, post \in PostSet,
                                         weak \in WeakSet}
  /\ net = <<>>
  /\ ticks = 0
  /\ inputs = 0

\* The AI plays against a player who gives no orders.
SpecAI == InitAI /\ [][Tick]_vars

\* ------------------------------------------------------- the AI under threat

\* A mid-game position against the AI: its army of four cavalry and four
\* knights stands at its castle with an attack on the player's castle set up,
\* and `raiders` player knights have come within 300 of the AI's castle; a
\* further player knight stands at exactly 300.  The AI's one peasant works at
\* the castle when `staffed`; its stores pay for a farm and a house, and food
\* is low.  The AI thinks in the next frame.
ScnThreat(difficulty, raiders, staffed) ==
  LET home == Cm(MAP_WIDTH - 300)
      near == << Unit(home - Cm(100), "KNIGHT", "PLAYER", 2),
                 Unit(home - Cm(200), "KNIGHT", "PLAYER", 3),
                 Unit(home - Cm(250), "KNIGHT", "PLAYER", 4) >>
      g == [GameWith(SubSeq(near, 1, raiders) \o
                     << Unit(home - Cm(300), "KNIGHT", "PLAYER", 5),
                        IF staffed
                        THEN [Unit(home + Cm(50), "PEASANT", "ENEMY", 7)
                                EXCEPT !.assigned_building = 6, !.is_working = TRUE]
                        ELSE set_move_target(Unit(home + Cm(50), "PEASANT", "ENEMY", 7),
                                             home - Cm(400)),
                        Unit(home + Cm(20), "CAVALRY", "ENEMY", 10),
                        Unit(home + Cm(40), "CAVALRY", "ENEMY", 11),
                        Unit(home + Cm(60), "CAVALRY", "ENEMY", 12),
                        Unit(home + Cm(80), "CAVALRY", "ENEMY", 13),
                        Unit(home + Cm(100), "KNIGHT", "ENEMY", 14),
                        Unit(home + Cm(120), "KNIGHT", "ENEMY", 15),
                        Unit(home + Cm(140), "KNIGHT", "ENEMY", 16),
                        Unit(home + Cm(160), "KNIGHT", "ENEMY", 17) >>,
                     << Building(Cm(300), "CASTLE", "PLAYER", 1),
                        Building(home, "CASTLE", "ENEMY", 6) >>,
                     TRUE, difficulty)
              EXCEPT !.uid_counter = 17,
                     !.enemy_resources = Resources(400, 100, 200),
                     !.ai_bot.state = "attacking",
                     !.ai_bot.attack_target = Cm(300),
                     !.ai_bot.think_timer =
                        DIFFICULTY_SETTINGS(difficulty).think_interval - 1]
  IN  _setup_attack(g)

InitThreat ==
  /\ game \in {ScnThreat(d, raiders, staffed) :
                 d \in Difficulties, raiders \in {1, 2, 3}, staffed \in BOOLEAN}
  /\ net = <<>>
  /\ ticks = 0
  /\ inputs = 0

\* The AI plays against raiders who are given no further orders.
SpecThreat == InitThreat /\ [][Tick]_vars

\* ------------------------------------------------------ the AI on the march

\* A mid-game position against the AI: its army of four knights has gathered
\* at the rally point of its attack on the player's house and has marched
\* `ahead` of it; `gold`, and food and wood to go with it, are in its store,
\* and it thinks again in `lag` frames.  The player holds a castle, a house and
\* one knight at home.
ScnMarch(difficulty, ahead, gold, lag) ==
  LET home  == Cm(MAP_WIDTH - 300)
      front == home - Cm(300) - ahead
      g == [GameWith(<< Unit(Cm(300), "KNIGHT", "PLAYER", 5),
                        Unit(front, "KNIGHT", "ENEMY", 10),
                        Unit(front + Cm(32), "KNIGHT", "ENEMY", 11),
                        Unit(front + Cm(64), "KNIGHT", "ENEMY", 12),
                        Unit(front + Cm(96), "KNIGHT", "ENEMY", 13) >>,
                     << Building(Cm(300), "CASTLE", "PLAYER", 1),
                        Building(home, "CASTLE", "ENEMY", 6),
                        Building(Cm(600), "HOUSE", "PLAYER", 8) >>,
                     TRUE, difficulty)
              EXCEPT !.uid_counter = 13,
                     !.enemy_resources = Resources(gold, 200, 200),
                     !.ai_bot.state = "attacking",
                     !.ai_bot.attack_target = Cm(600),
                     !.ai_bot.think_timer =
                        DIFFICULTY_SETTINGS(difficulty).think_interval - lag]
  IN  [_setup_attack(g) EXCEPT !.ai_bot.army_gathered = TRUE, !.h_gather = {}]

InitMarch ==
  /\ game \in {ScnMarch(d, ahead, gold, lag) :
                 d \in Difficulties, ahead \in {Cm(0), Cm(400)}, gold \in {0, 1000},
                 lag \in {1, 2}}
  /\ net = <<>>
  /\ ticks = 0
  /\ inputs = 0

\* The AI plays against a player who gives no orders.
SpecMarch == InitMarch /\ [][Tick]_vars

\* ------------------------------------------------------ the AI's retargeting

\* The most calls of execute_orders that are followed.
MaxOrders == 2

\* An attack of the AI under way: its soldier of type `t` goes for a player
\* knight `d1` away, of health `health`, and a second player knight stands
\* `d2` away on the same side.
ScnCharge(t, d1, d2, health) ==
  LET at == Cm(1500)
      K1 == [Unit(at - d1, "KNIGHT", "PLAYER", 2) EXCEPT !.health = health]
      K2 == Unit(at - d2, "KNIGHT", "PLAYER", 3)
  IN  [GameWith(<< K1, K2, set_attack_target(Unit(at, t, "ENEMY", 10), K1) >>,
                << Building(Cm(300), "CASTLE", "PLAYER", 1),
                   Building(Cm(MAP_WIDTH - 300), "CASTLE", "ENEMY", 6) >>,
                TRUE, "EASY")
         EXCEPT !.uid_counter = 10,
                !.ai_bot.state = "attacking",
                !.ai_bot.attack_target = Cm(300),
                !.ai_bot.army_gathered = TRUE]

InitCharge ==
  /\ game \in {ScnCharge(t, d1, d2, health) :
                 t \in {"KNIGHT", "CAVALRY", "CANNON"},
                 d1 \in {Cm(30), Cm(60), Cm(100), Cm(300)},
                 d2 \in {Cm(20), Cm(50), Cm(70), Cm(170), Cm(190), Cm(400)},
                 health \in {0, 150}}
  /\ net = <<>>
  /\ ticks = 0
  /\ inputs = 0

\* AIBot.execute_orders, called by AIBot.update in every frame.
ExecuteOrders ==
  /\ ticks < MaxOrders
  /\ game' = execute_orders(game)
  /\ ticks' = ticks + 1
  /\ UNCHANGED <<net, inputs>>

SpecCharge == InitCharge /\ [][ExecuteOrders]_vars

\* ------------------------------------------------------ projectiles in flight

\* A mid-game position: two balls are on their way to an enemy knight of health
\* `health`, the first a frame from it, the second `lag` frames behind and fired
\* by a cannon or, with `tower`, by the player's tower; a third is a frame from
\* a house of the enemy that has been razed since.  The player's cannon stands
\* in range of the knight, loaded.
ScnVolley(health, lag, tower) ==
  LET K  == [Unit(Cm(1000), "KNIGHT", "ENEMY", 10) EXCEPT !.health = health]
      C  == set_attack_target(Unit(Cm(850), "CANNON", "PLAYER", 13), K)
      H  == [Building(Cm(1100), "HOUSE", "ENEMY", 12) EXCEPT !.health = -10]
      step == ProjectileStep([speed |-> 300], 1)
      b1 == Projectile(Cm(1000) - step, Cm(1000), 300, MeleeDamage(C, K, 1000),
                       10, None, "PLAYER", FALSE)
      b2 == IF tower
            THEN Projectile(Cm(1000) - (1 + lag) * ProjectileStep([speed |-> 350], 1),
                            Cm(1000), 350, 60, 10, None, "PLAYER", TRUE)
            ELSE Projectile(Cm(1000) - (1 + lag) * step, Cm(1000), 300,
                            MeleeDamage(C, K, 1200), 10, None, "PLAYER", FALSE)
      b3 == Projectile(Cm(1100) - step, Cm(1100), 300,
                       (UNIT_STATS("CANNON").attack * 12) \div 10,
                       None, 12, "PLAYER", FALSE)
  IN  [GameWith(<< Unit(Cm(350), "PEASANT", "PLAYER", 2), K, C >>,
                << Building(Cm(300), "CASTLE", "PLAYER", 1),
                   Building(Cm(MAP_WIDTH - 300), "CASTLE", "ENEMY", 6),
                   Building(Cm(700), "TOWER", "PLAYER", 11), H >>,
                TRUE, "NORMAL")
         EXCEPT !.uid_counter = 13,
                !.buildings = Remove(@, 12),
                !.projectiles = << b1, b2, b3 >>]

InitVolley ==
  /\ game \in {ScnVolley(health, lag, tower) :
                 health \in {30, 60, 150}, lag \in {0, 1, 2}, tower \in BOOLEAN}
  /\ net = <<>>
  /\ ticks = 0
  /\ inputs = 0

SpecVolley == InitVolley /\ [][Tick]_vars

\* ---------------------------------------------------------- the AI's stores

\* The most calls of _try_train_unit and _try_build_building that are followed.
MaxTries == 2

\* A game against the AI with the given stores; without `castle` the AI's
\* castle has left the building list.
ScnStock(gold, food, wood, castle) ==
  [GameWith(<< Unit(Cm(350), "PEASANT", "PLAYER", 2),
               Unit(Cm(MAP_WIDTH - 350), "PEASANT", "ENEMY", 7) >>,
            << Building(Cm(300), "CASTLE", "PLAYER", 1) >>
              \o (IF castle THEN << Building(Cm(MAP_WIDTH - 300), "CASTLE", "ENEMY", 6) >>
                   ELSE << >>),
            TRUE, "NORMAL")
     EXCEPT !.uid_counter = 7,
            !.enemy_resources = Resources(gold, food, wood)]

InitStock ==
  /\ game \in {ScnStock(gold, food, wood, castle) :
                 gold \in {0, 100, 300}, food \in {0, 25, 75}, wood \in {0, 50},
                 castle \in BOOLEAN}
  /\ net = <<>>
  /\ ticks = 0
  /\ inputs = 0

\* A call of AIBot._try_train_unit.
TryTrainUnit ==
  /\ inputs < MaxTries
  /\ \E t \in UnitTypes, side \in {-1, 1} : game' = _try_train_unit(game, t, side)
  /\ inputs' = inputs + 1
  /\ UNCHANGED <<net, ticks>>

\* A call of AIBot._try_build_building.
TryBuildBuilding ==
  /\ inputs < MaxTries
  /\ \E t \in {"FARM", "HOUSE"}, side \in {-1, 1} :
       game' = _try_build_building(game, t, side, Cm(200))
  /\ inputs' = inputs + 1
  /\ UNCHANGED <<net, ticks>>

NextStock ==
  \/ TryTrainUnit
  \/ TryBuildBuilding

SpecStock == InitStock /\ [][NextStock]_vars

\* --------------------------------------------------------- Resources.spend

\* Amounts held and asked for run over 0 .. MaxAmount; a cost dictionary has any
\* of the keys gold, food, wood.
MaxAmount == 2

MaxSpends == 2

CostSet ==
  UNION {[keys -> 0..MaxAmount] : keys \in SUBSET {"gold", "food", "wood"}}

InitRes ==
  /\ \E gold \in 0..MaxAmount, food \in 0..MaxAmount, wood \in 0..MaxAmount :
       game = [GameWith(<<>>, <<>>, TRUE, "NORMAL")
                 EXCEPT !.player_resources = Resources(gold, food, wood)]
  /\ net = <<>>
  /\ ticks = 0
  /\ inputs = 0

\* One call of player_resources.spend(costs); h_spend records the call.
Spend ==
  /\ Len(game.h_spend) < MaxSpends
  /\ \E costs \in CostSet :
       LET out == spend(game.player_resources, costs)
       IN  game' = [game EXCEPT
             !.player_resources = out.res,
             !.h_spend = Append(@, [before |-> game.player_resources, costs |-> costs,
                                    after |-> out.res, ok |-> out.ok])]
  /\ UNCHANGED <<net, ticks, inputs>>

SpecRes == InitRes /\ [][Spend]_vars

\* ----------------------------------------------------------------- the duel

\* The most hits one duel is followed for.
MaxHits == 5

\* random.uniform(0.8, 1.2) in thousandths, every value.
DuelJitter == 800..1200

\* Two units face each other at full health: 1, of a type that strikes by
\* hand, attacks 2, of any type.
InitDuel ==
  /\ \E a \in UnitTypes \ {"CANNON"}, d \in UnitTypes :
       game = GameWith(<< Unit(Cm(1000), a, "ENEMY", 1),
                          Unit(Cm(1020), d, "PLAYER", 2) >>, <<>>, TRUE, "NORMAL")
  /\ net = <<>>
  /\ ticks = 0
  /\ inputs = 0

\* One call of _do_attack(attacker, defender) on a living defender, as
\* _update_units makes it each time the cooldown has run out.
Hit ==
  /\ game.h_hits < MaxHits
  /\ is_alive(U(game, 2))
  /\ \E p \in DuelJitter :
       game' = [_do_attack(game, 1, 2, p) EXCEPT !.h_hits = @ + 1]
  /\ UNCHANGED <<net, ticks, inputs>>

SpecDuel == InitDuel /\ [][Hit]_vars

\* ---------------------------------------------------------------- the tower

\* The most frames the tower is watched for.
MaxFrames == 5

\* Frame lengths in frames of 1/60 s: a frame on time, and one a second late.
FrameSet == {1, 60}

\* A mid-game position: the player's tower stands between the castles, one
\* peasant working at it; a second peasant is `walk` away from it, assigned to
\* the tower when `workers` is 2 and idle otherwise.  An enemy knight `near`
\* from the tower and an enemy cavalry 200 from it are sent against it.
ScnTower(workers, walk, near) ==
  LET T  == Building(Cm(700), "TOWER", "PLAYER", 11)
      P  == [Unit(Cm(700), "PEASANT", "PLAYER", 2)
               EXCEPT !.assigned_building = 11, !.is_working = TRUE]
      Q0 == Unit(Cm(700) - walk, "PEASANT", "PLAYER", 3)
      Q  == IF workers = 2 THEN update_work_status([Q0 EXCEPT !.assigned_building = 11], T.x)
            ELSE Q0
  IN  [GameWith(<< P, Q, Unit(Cm(700) + near, "KNIGHT", "ENEMY", 10),
                   Unit(Cm(900), "CAVALRY", "ENEMY", 12) >>,
                << Building(Cm(300), "CASTLE", "PLAYER", 1),
                   Building(Cm(MAP_WIDTH - 300), "CASTLE", "ENEMY", 6), T >>,
                TRUE, "NORMAL")
         EXCEPT !.uid_counter = 12,
                !.enemy_resources = Resources(0, 200, 0),
                !.ai_bot.state = "attacking",
                !.ai_bot.attack_target = Cm(700),
                !.ai_bot.rally_point = Cm(MAP_WIDTH - 300 - 300),
                !.ai_bot.army_gathered = TRUE]

InitTower ==
  /\ game \in {ScnTower(workers, walk, near) :
                 workers \in {1, 2}, walk \in {Cm(0), Cm(90)}, near \in {Cm(150), Cm(240)}}
  /\ net = <<>>
  /\ ticks = 0
  /\ inputs = 0

\* Game.update in state PLAYING, for frames of either length.
Frame ==
  /\ Playing
  /\ ticks < MaxFrames
  /\ \E dt \in FrameSet, p \in JitterSet, roll \in RollSet :
       \E r \in IF Thinks(game, dt) THEN RandSet ELSE {NoRand} :
          game' = _update_game(game, [dt |-> dt, p |-> p, roll |-> roll, r |-> r,
                                      msgs |-> net])
  /\ ticks' = ticks + 1
  /\ UNCHANGED <<net, inputs>>

SpecTower == InitTower /\ [][Frame]_vars

\* ------------------------------------------------------- the AI after a raid

\* A position against the AI after a raid on its castle has been beaten off
\* at the price of its peasants and of all but `army` of its knights: its
\* stores are empty and it is still in state defending, the defence target on
\* its castle.  The player's castle and peasant are at home and the player's
\* knight stands at `post`, 400 or more from the AI's castle; the player gives
\* no orders.  The AI thinks again in
\* `lag` frames.  On EASY and NORMAL the AI has no income but its peasants'.
ScnWatch(difficulty, army, lag, post) ==
  LET home == Cm(MAP_WIDTH - 300)
      guard == << Unit(home + Cm(40), "KNIGHT", "ENEMY", 10),
                  Unit(home + Cm(80), "KNIGHT", "ENEMY", 11) >>
  IN  [GameWith(<< Unit(Cm(350), "PEASANT", "PLAYER", 2),
                   Unit(post, "KNIGHT", "PLAYER", 5) >> \o SubSeq(guard, 1, army),
                << Building(Cm(300), "CASTLE", "PLAYER", 1),
                   Building(home, "CASTLE", "ENEMY", 6) >>,
                TRUE, difficulty)
         EXCEPT !.uid_counter = 11,
                !.enemy_resources = Resources(0, 0, 0),
                !.ai_bot.state = "defending",
                !.ai_bot.attack_target = home,
                !.ai_bot.think_timer =
                   DIFFICULTY_SETTINGS(difficulty).think_interval - lag]

InitWatch ==
  /\ game \in {ScnWatch(d, army, lag, post) :
                 d \in {"EASY", "NORMAL"}, army \in {0, 1, 2}, lag \in {1, 2, 3},
                 post \in {Cm(300), Cm(900), Cm(MAP_WIDTH - 300 - 400)}}
  /\ net = <<>>
  /\ ticks = 0
  /\ inputs = 0

\* A step of the game clock: Game.update has run in state PLAYING.
Played == Playing /\ ticks < MaxTicks /\ ticks' = ticks + 1

\* The main loop calls Game.update in every frame for as long as the game is
\* played: the clock does not stop while a tick is possible.
SpecWatch == InitWatch /\ [][Tick]_vars /\ WF_ticks(Played)

\* ------------------------------------------------------- the building site

\* A two-player game in which the player has placed a farm and then a house
\* next to it, and has built the house first (`farmFirst`), or the other way
\* round: the unfinished building is the farm.  A player unit of type `t`
\* stands at `x` between them and is sent to `goal`.
ScnSite(farmFirst, t, x, goal) ==
  LET F == [Building(Cm(700), "FARM", "PLAYER", IF farmFirst THEN 11 ELSE 12)
              EXCEPT !.completed = FALSE, !.build_progress = 0]
      H == Building(Cm(600), "HOUSE", "PLAYER", IF farmFirst THEN 12 ELSE 11)
  IN  [GameWith(<< set_move_target(Unit(x, t, "PLAYER", 13), goal) >>,
                << Building(Cm(300), "CASTLE", "PLAYER", 1),
                   Building(Cm(MAP_WIDTH - 300), "CASTLE", "ENEMY", 6) >>
                  \o (IF farmFirst THEN << F, H >> ELSE << H, F >>),
                FALSE, "NORMAL")
         EXCEPT !.uid_counter = 13]

InitSite ==
  /\ game \in {ScnSite(farmFirst, t, x, goal) :
                 farmFirst \in BOOLEAN, t \in {"PEASANT", "KNIGHT", "CAVALRY"},
                 x \in {Cm(600), Cm(640), Cm(700)}, goal \in {Cm(400), Cm(900)}}
  /\ net = <<>>
  /\ ticks = 0
  /\ inputs = 0

SpecSite == InitSite /\ [][Frame]_vars

\* ------------------------------------------------------ the construction

\* A two-player game in which the player has placed a building of type `t` at
\* 700 and peasants have brought it to `progress`.  Peasant 2 stands at the
\* site, a builder of it or not; peasant 3, selected, was sent to build it and
\* is `walk` away from it.
ScnBuild(t, progress, builder, walk) ==
  LET S == [Building(Cm(700), t, "PLAYER", 11)
              EXCEPT !.completed = FALSE, !.build_progress = progress]
      P == [Unit(Cm(700), "PEASANT", "PLAYER", 2)
              EXCEPT !.constructing_building = IF builder THEN 11 ELSE None]
      Q == set_move_target([Unit(Cm(700) - walk, "PEASANT", "PLAYER", 3)
                              EXCEPT !.constructing_building = 11], Cm(700))
  IN  [GameWith(<< P, Q, Unit(Cm(300), "KNIGHT", "PLAYER", 5) >>,
                << Building(Cm(300), "CASTLE", "PLAYER", 1),
                   Building(Cm(MAP_WIDTH - 300), "CASTLE", "ENEMY", 6), S >>,
                FALSE, "NORMAL")
         EXCEPT !.uid_counter = 11, !.selected_units = << 3 >>]

\* The progress of the site at the start: none, or one or two frames of one
\* builder short of the end for a house.
ProgressSet == {0, 100 * 144 - 48, 100 * 144 - 24}

InitBuild ==
  /\ game \in {ScnBuild(t, progress, builder, walk) :
                 t \in {"HOUSE", "TOWER"}, progress \in ProgressSet,
                 builder \in BOOLEAN, walk \in {Cm(0), Cm(WORKER_RANGE) + 1}}
  /\ net = <<>>
  /\ ticks = 0
  /\ inputs = 0

NextBuild ==
  \/ Tick
  \/ KeyPlace
  \/ MouseDown
  \/ MouseUp
  \/ RightClick

SpecBuild == InitBuild /\ [][NextBuild]_vars

\* ------------------------------------------------------------ the healing

\* A two-player game, `lag` frames before the heal timer runs out, the
\* player's healing on or off and `food` in the player's store.  The player's
\* peasant has taken two blows (15 and 22) of the enemy knight next to it, and
\* the enemy knight, with `health` left, is ready for the third; the player's
\* knight, two health short of its full health, has come up to the enemy
\* knight and is ready to strike it.
ScnHeal(food, enabled, lag, health) ==
  LET W == [Unit(Cm(1000), "PEASANT", "PLAYER", 2) EXCEPT !.health = 13]
      K == set_attack_target([Unit(Cm(1020), "KNIGHT", "ENEMY", 10)
                                EXCEPT !.health = health], W)
      D == set_attack_target([Unit(Cm(1052), "KNIGHT", "PLAYER", 5)
                                EXCEPT !.health = 148], K)
  IN  [GameWith(<< D, W, K >>,
                << Building(Cm(300), "CASTLE", "PLAYER", 1),
                   Building(Cm(MAP_WIDTH - 300), "CASTLE", "ENEMY", 6) >>,
                FALSE, "NORMAL")
         EXCEPT !.uid_counter = 10,
                !.player_resources = Resources(0, food, 0),
                !.player_healing_enabled = enabled,
                !.heal_timer = 2 * 60 - lag]

InitHeal ==
  /\ game \in {ScnHeal(food, enabled, lag, health) :
                 food \in {0, 2, 3, 5, 6}, enabled \in BOOLEAN, lag \in {1, 2},
                 health \in {10, 150}}
  /\ net = <<>>
  /\ ticks = 0
  /\ inputs = 0

NextHeal ==
  \/ Tick
  \/ HealButton

SpecHeal == InitHeal /\ [][NextHeal]_vars

\* --------------------------------------------------------------- the route

\* A two-player game: the player's unit of type `t`, selected, stands `short`
\* of the open ground at 900, idle or (`marching`) on an attack-move order to
\* 1500 that nothing has interrupted.  No enemy unit is on the map and the
\* enemy's castle is far away.
ScnRoute(t, marching, short) ==
  LET M == Unit(Cm(900) - short, t, "PLAYER", 5)
  IN  [GameWith(<< IF marching THEN set_attack_move_target(M, Cm(1500)) ELSE M >>,
                << Building(Cm(300), "CASTLE", "PLAYER", 1),
                   Building(Cm(MAP_WIDTH - 300), "CASTLE", "ENEMY", 6) >>,
                FALSE, "NORMAL")
         EXCEPT !.uid_counter = 6, !.selected_units = << 5 >>]

InitRoute ==
  /\ game \in {ScnRoute(t, marching, short) :
                 t \in {"PEASANT", "KNIGHT", "CAVALRY"}, marching \in BOOLEAN,
                 short \in {Cm(3), Cm(6), Cm(40)}}
  /\ net = <<>>
  /\ ticks = 0
  /\ inputs = 0

NextRoute ==
  \/ Tick
  \/ RightClick
  \/ KeyAttackMove

SpecRoute == InitRoute /\ [][NextRoute]_vars

\* ------------------------------------------------------- the unit commands

\* The most commands one unit is given.
MaxIssues == 3

\* A unit's target and assignment fields.
CommandFields(u) ==
  [target_x |-> u.target_x, target_unit |-> u.target_unit,
   target_building |-> u.target_building,
   attack_move_target |-> u.attack_move_target,
   assigned_building |-> u.assigned_building, is_working |-> u.is_working]

\* A player unit of type `t` next to the player's house, working there when
\* `working`; two enemy units stand further off.
ScnDrill(t, working) ==
  LET H  == Building(Cm(600), "HOUSE", "PLAYER", 11)
      U0 == Unit(Cm(620), t, "PLAYER", 2)
  IN  [GameWith(<< IF working /\ t = "PEASANT"
                   THEN [U0 EXCEPT !.assigned_building = 11, !.is_working = TRUE]
                   ELSE U0,
                   Unit(Cm(900), "KNIGHT", "ENEMY", 10),
                   Unit(Cm(1000), "CAVALRY", "ENEMY", 12) >>,
                << Building(Cm(300), "CASTLE", "PLAYER", 1),
                   Building(Cm(MAP_WIDTH - 300), "CASTLE", "ENEMY", 6), H >>,
                FALSE, "NORMAL")
         EXCEPT !.uid_counter = 12]

InitDrill ==
  /\ game \in {ScnDrill(t, working) : t \in {"PEASANT", "KNIGHT"}, working \in BOOLEAN}
  /\ net = <<>>
  /\ ticks = 0
  /\ inputs = 0

\* Unit 2 is given command `cmd` with argument `arg`, which makes it `u2`; the
\* fields after the first of a run of equal commands are kept.
Issue(cmd, arg, u2) ==
  /\ inputs < MaxIssues
  /\ game' = [game EXCEPT
       !.unit[2] = u2,
       !.h_issue = IF @.cmd = cmd /\ @.arg = arg
                   THEN [@ EXCEPT !.count = @ + 1]
                   ELSE [cmd |-> cmd, arg |-> arg, count |-> 1,
                         once |-> CommandFields(u2)]]
  /\ inputs' = inputs + 1
  /\ UNCHANGED <<net, ticks>>

IssueMove ==
  \E x \in {Cm(400), Cm(900)} :
    Issue("set_move_target", x, set_move_target(U(game, 2), x))

IssueAttack ==
  \E id \in {10, 12} :
    Issue("set_attack_target", id, set_attack_target(U(game, 2), U(game, id)))

IssueBuilding ==
  \E bid \in {6, 11} :
    Issue("set_building_target", bid, set_building_target(U(game, 2), B(game, bid)))

IssueAttackMove ==
  \E x \in {Cm(400), Cm(900)} :
    Issue("set_attack_move_target", x, set_attack_move_target(U(game, 2), x))

IssueAssign ==
  \E bid \in {1, 11} :
    Issue("assign_to_building", bid, assign_to_building(U(game, 2), B(game, bid)))

IssueClear == Issue("clear_targets", None, clear_targets(U(game, 2)))

NextDrill ==
  \/ IssueMove
  \/ IssueAttack
  \/ IssueBuilding
  \/ IssueAttackMove
  \/ IssueAssign
  \/ IssueClear

SpecDrill == InitDrill /\ [][NextDrill]_vars

\* ------------------------------------------------------- the fall of a castle

\* The most calls of Game.update that are followed.
MaxUpdates == 5

InitFall ==
  /\ game \in {ScnFall(who, health) : who \in {"PLAYER", "ENEMY"}, health \in {5, 30, 60, 2000}}
  /\ net = <<>>
  /\ ticks = 0
  /\ inputs = 0

\* One call of Game.update, in whatever state the game is.
Update ==
  /\ Ok(game)
  /\ ticks < MaxUpdates
  /\ \E dt \in FrameSet, p \in JitterSet, roll \in RollSet :
       \E r \in IF game.state = "PLAYING" /\ Thinks(game, dt) THEN RandSet ELSE {NoRand} :
          game' = update(game, [dt |-> dt, p |-> p, roll |-> roll, r |-> r,
                                msgs |-> net])
  /\ ticks' = ticks + 1
  /\ UNCHANGED <<net, inputs>>

SpecFall == InitFall /\ [][Update]_vars

\* ------------------------------------------------------- the message queue

\* The most messages the peer sends, and the most calls of get_messages.
MaxMessages == 3

MaxCalls == 3

\* NetworkManager with its two threads: the receive loop (recv_pc, data) and
\* the game loop inside get_messages (get_pc, messages).  received is what
\* _receive_message has returned so far, returned what get_messages has.
NetworkManager ==
  [message_queue |-> <<>>, lock |-> "free",
   recv_pc |-> "receive", data |-> None,
   get_pc |-> "idle", messages |-> <<>>,
   received |-> <<>>, returned |-> <<>>]

InitNet ==
  /\ game = init_game(FALSE, "NORMAL")
  /\ net = NetworkManager
  /\ ticks = 0
  /\ inputs = 0

\* A thread ignores the lock.
AcquireUnlocked(n, thread) == [n EXCEPT !.lock = thread]

\* `with self.lock:` is entered: the thread waits until the lock is free.
Acquire(n, thread) == IF n.lock = "free" THEN [n EXCEPT !.lock = thread] ELSE n

\* `with self.lock:` is left.
Release(n) == [n EXCEPT !.lock = "free"]

\* _receive_loop: data = self._receive_message() returns the peer's next message.
RecvMessage ==
  /\ net.recv_pc = "receive"
  /\ Len(net.received) < MaxMessages
  /\ LET m == [seq |-> Len(net.received) + 1, type |-> "action", command |-> "move"]
     IN  net' = [net EXCEPT !.data = m, !.received = Append(@, m),
                            !.recv_pc = "acquire"]
  /\ UNCHANGED <<game, ticks, inputs>>

RecvAcquire ==
  /\ net.recv_pc = "acquire"
  /\ Acquire(net, "receive_thread").lock = "receive_thread"
  /\ net' = [Acquire(net, "receive_thread") EXCEPT !.recv_pc = "append"]
  /\ UNCHANGED <<game, ticks, inputs>>

\* self.message_queue.append(data)
RecvAppend ==
  /\ net.recv_pc = "append"
  /\ net' = [net EXCEPT !.message_queue = Append(@, net.data), !.recv_pc = "release"]
  /\ UNCHANGED <<game, ticks, inputs>>

RecvRelease ==
  /\ net.recv_pc = "release"
  /\ net' = [Release(net) EXCEPT !.recv_pc = "receive", !.data = None]
  /\ UNCHANGED <<game, ticks, inputs>>

\* get_messages is called by the game loop.
GetAcquire ==
  /\ net.get_pc = "idle"
  /\ inputs < MaxCalls
  /\ Acquire(net, "game").lock = "game"
  /\ net' = [Acquire(net, "game") EXCEPT !.get_pc = "copy"]
  /\ inputs' = inputs + 1
  /\ UNCHANGED <<game, ticks>>

\* messages = self.message_queue.copy()
GetCopy ==
  /\ net.get_pc = "copy"
  /\ net' = [net EXCEPT !.messages = net.message_queue, !.get_pc = "clear"]
  /\ UNCHANGED <<game, ticks, inputs>>

\* self.message_queue.clear()
GetClear ==
  /\ net.get_pc = "clear"
  /\ net' = [net EXCEPT !.message_queue = <<>>, !.get_pc = "release"]
  /\ UNCHANGED <<game, ticks, inputs>>

GetRelease ==
  /\ net.get_pc = "release"
  /\ net' = [Release(net) EXCEPT !.get_pc = "return"]
  /\ UNCHANGED <<game, ticks, inputs>>

\* return messages
GetReturn ==
  /\ net.get_pc = "return"
  /\ net' = [net EXCEPT !.returned = Append(@, net.messages), !.messages = <<>>,
                         !.get_pc = "idle"]
  /\ UNCHANGED <<game, ticks, inputs>>

NextNet ==
  \/ RecvMessage
  \/ RecvAcquire
  \/ RecvAppend
  \/ RecvRelease
  \/ GetAcquire
  \/ GetCopy
  \/ GetClear
  \/ GetRelease
  \/ GetReturn

SpecNet == InitNet /\ [][NextNet]_vars

\* ------------------------------------------------------------ the connection

\* The most calls of close().
MaxCloses == 2

\* NetworkManager as the connection sees it, with its three threads: the game
\* loop inside close() (main_pc), _connect_thread (conn_pc, data) and
\* _receive_loop (recv_pc).  socket is "none", "open" or "closed"; the
\* Optional[bool] connect_result is "NONE", "TRUE" or "FALSE".  closed tells
\* that close() has returned and no connection was asked for since, and loops
\* counts the receive loops started since then.
Connection ==
  [socket |-> "none", connected |-> FALSE, running |-> FALSE,
   connecting |-> FALSE, connect_result |-> "NONE",
   main_pc |-> "idle", conn_pc |-> "idle", data |-> "none", recv_pc |-> "none",
   asked |-> FALSE, closes |-> 0, closed |-> FALSE, loops |-> 0]

InitConn ==
  /\ game = init_game(FALSE, "NORMAL")
  /\ net = Connection
  /\ ticks = 0
  /\ inputs = 0

\* NetworkManager.get_connect_status
get_connect_status(n) == IF n.connecting THEN "NONE" ELSE n.connect_result

\* NetworkManager.connect_to_host, called once: the thread is started.
ConnectToHost ==
  /\ net.main_pc = "idle"
  /\ ~net.asked
  /\ ~net.connecting
  /\ net' = [net EXCEPT !.connecting = TRUE, !.connect_result = "NONE",
                         !.conn_pc = "socket", !.asked = TRUE, !.closed = FALSE]
  /\ UNCHANGED <<game, ticks, inputs>>

\* NetworkManager._start_receive_loop
_start_receive_loop(n) ==
  [n EXCEPT !.running = TRUE, !.recv_pc = "started",
            !.loops = IF n.closed THEN @ + 1 ELSE @]

\* NetworkManager._connect_thread, statement by statement: the managers the
\* next statement of the thread can leave.
\*   socket         self.socket = socket.socket(...); settimeout(10)
\*   connect        self.socket.connect((ip, port)) succeeds, or raises (the
\*                  host is not there; the socket was closed or is None by now)
\*   send           self._send_message(invite_request), which catches its own
\*                  exceptions and sets connected = False
\*   recv           settimeout(30); data = self._receive_message(): on an open
\*                  socket the host accepts, declines, hangs up, or the wait
\*                  times out; on a closed or missing socket settimeout or
\*                  recv raises and no data comes
\*   set_connected  self.connected = True
\*   set_running    self.running = True
\*   start          self._start_receive_loop()
\*   set_result     self.connect_result = True
\*   finally        self.connecting = False
\* The else branches and the except clauses come to connect_result = False,
\* and the thread goes on to the finally (Failed).
_connect_thread(n) ==
  LET Failed(m) == [m EXCEPT !.connect_result = "FALSE", !.conn_pc = "finally"]
  IN
  CASE n.conn_pc = "socket" ->
         {[n EXCEPT !.socket = "open", !.conn_pc = "connect"]}
    [] n.conn_pc = "connect" ->
         {IF ok THEN [n EXCEPT !.conn_pc = "send"] ELSE Failed(n) :
            ok \in IF n.socket = "open" THEN BOOLEAN ELSE {FALSE}}
    [] n.conn_pc = "send" ->
         {IF n.socket = "open" THEN [n EXCEPT !.conn_pc = "recv"]
          ELSE [n EXCEPT !.connected = FALSE, !.conn_pc = "recv"]}
    [] n.conn_pc = "recv" ->
         {IF data = "accepted"
          THEN [n EXCEPT !.data = data, !.conn_pc = "set_connected"]
          ELSE Failed([n EXCEPT !.data = data]) :
            data \in IF n.socket = "open"
                     THEN {"accepted", "declined", "none", "timeout"}
                     ELSE {"none"}}
    [] n.conn_pc = "set_connected" ->
         {[n EXCEPT !.connected = TRUE, !.conn_pc = "set_running"]}
    [] n.conn_pc = "set_running" ->
         {[n EXCEPT !.running = TRUE, !.conn_pc = "start"]}
    [] n.conn_pc = "start" ->
         {[_start_receive_loop(n) EXCEPT !.conn_pc = "set_result"]}
    [] n.conn_pc = "set_result" ->
         {[n EXCEPT !.connect_result = "TRUE", !.conn_pc = "finally"]}
    [] n.conn_pc = "finally" ->
         {[n EXCEPT !.connecting = FALSE, !.conn_pc = "done"]}
    [] OTHER -> {}

\* NetworkManager._receive_loop.  self.socket.settimeout(0.5) stands outside
\* the try: on a missing socket it raises and the thread ends there, on a
\* closed one it may.  When `while self.running` is left, connected = False.
\* A turn of the loop changes nothing that is kept here.
_receive_loop(n) ==
  CASE n.recv_pc = "started" ->
         {[n EXCEPT !.recv_pc = IF ok THEN "loop" ELSE "dead"] :
            ok \in CASE n.socket = "open" -> {TRUE}
                     [] n.socket = "closed" -> BOOLEAN
                     [] OTHER -> {FALSE}}
    [] n.recv_pc = "loop" /\ ~n.running ->
         {[n EXCEPT !.connected = FALSE, !.recv_pc = "ended"]}
    [] OTHER -> {}

\* NetworkManager.close, statement by statement; after the last one close()
\* has returned.
close(n) ==
  CASE n.main_pc = "running" ->
         [n EXCEPT !.running = FALSE, !.main_pc = "connected"]
    [] n.main_pc = "connected" ->
         [n EXCEPT !.connected = FALSE, !.main_pc = "connecting"]
    [] n.main_pc = "connecting" ->
         [n EXCEPT !.connecting = FALSE, !.main_pc = "result"]
    [] n.main_pc = "result" ->
         [n EXCEPT !.connect_result = "NONE", !.main_pc = "socket"]
    [] n.main_pc = "socket" ->
         [n EXCEPT !.socket = IF @ = "none" THEN @ ELSE "closed",
                   !.main_pc = "none"]
    [] n.main_pc = "none" ->
         [n EXCEPT !.socket = "none", !.main_pc = "idle",
                   !.closed = TRUE, !.loops = 0]

\* The next statement of _connect_thread.
ConnectThread ==
  /\ \E n \in _connect_thread(net) : net' = n
  /\ UNCHANGED <<game, ticks, inputs>>

\* The next statement of _receive_loop.
ReceiveLoop ==
  /\ \E n \in _receive_loop(net) : net' = n
  /\ UNCHANGED <<game, ticks, inputs>>

\* The game loop calls close().
CallClose ==
  /\ net.main_pc = "idle"
  /\ net.closes < MaxCloses
  /\ net' = close([net EXCEPT !.main_pc = "running", !.closes = @ + 1])
  /\ UNCHANGED <<game, ticks, inputs>>

\* The next statement of close().
Close ==
  /\ net.main_pc \notin {"idle", "running"}
  /\ net' = close(net)
  /\ UNCHANGED <<game, ticks, inputs>>

NextConn ==
  \/ ConnectToHost
  \/ ConnectThread
  \/ ReceiveLoop
  \/ CallClose
  \/ Close

SpecConn == InitConn /\ [][NextConn]_vars

\* The batches of a sequence of batches, one after the other.
RECURSIVE Flat(_)
Flat(batches) == IF batches = <<>> THEN <<>> ELSE Head(batches) \o Flat(Tail(batches))

\* ------------------------------------------------------------------ the mods

\* The most entities created under one set of mods.
MaxMade == 3

\* dict.copy() followed by dict.update(over): the keys of over win.
Updated(base, over) ==
  [k \in DOMAIN base \cup DOMAIN over |-> IF k \in DOMAIN over THEN over[k] ELSE base[k]]

\* A table of overrides with no entry.
NoOverrides == [k \in {} |-> 0]

\* ModManager after load_all_mods: with no mod installed, and with a mod whose
\* data files override the knight's stats and cost and the house's.
ModManager(installed) ==
  IF ~installed
  THEN [unit_stat_overrides |-> NoOverrides, unit_cost_overrides |-> NoOverrides,
        building_stat_overrides |-> NoOverrides, building_cost_overrides |-> NoOverrides]
  ELSE [unit_stat_overrides |-> ("KNIGHT" :> [health |-> 200, attack |-> 30]),
        unit_cost_overrides |-> ("KNIGHT" :> [gold |-> 100]),
        building_stat_overrides |-> ("HOUSE" :> [health |-> 400]),
        building_cost_overrides |-> ("HOUSE" :> [gold |-> 60])]

\* ModManager.get_unit_stats, get_unit_costs, get_building_stats,
\* get_building_costs
get_unit_stats(m, t) ==
  IF t \in DOMAIN m.unit_stat_overrides
  THEN Updated(UNIT_STATS(t), m.unit_stat_overrides[t]) ELSE UNIT_STATS(t)

get_unit_costs(m, t) ==
  IF t \in DOMAIN m.unit_cost_overrides
  THEN Updated(UNIT_COSTS(t), m.unit_cost_overrides[t]) ELSE UNIT_COSTS(t)

get_building_stats(m, t) ==
  IF t \in DOMAIN m.building_stat_overrides
  THEN Updated(BUILDING_STATS(t), m.building_stat_overrides[t]) ELSE BUILDING_STATS(t)

get_building_costs(m, t) ==
  IF t \in DOMAIN m.building_cost_overrides
  THEN Updated(BUILDING_COSTS(t), m.building_cost_overrides[t]) ELSE BUILDING_COSTS(t)

\* Unit._apply_stats and Building._apply_stats: the stat block of a new
\* entity; m is the _mod_manager argument of the constructor: << >> when the
\* caller passes none (the default None), <<manager>> otherwise.
UnitApplyStats(m, t) == IF m # << >> THEN get_unit_stats(m[1], t) ELSE UNIT_STATS(t)

BuildingApplyStats(m, t) ==
  IF m # << >> THEN get_building_stats(m[1], t) ELSE BUILDING_STATS(t)

InitMod ==
  /\ game \in {[mod_manager |-> ModManager(installed),
                 player_resources |-> Resources(STARTING_GOLD, STARTING_FOOD, STARTING_WOOD),
                 enemy_resources |-> Resources(STARTING_GOLD, STARTING_FOOD, STARTING_WOOD),
                 made |-> <<>>] : installed \in BOOLEAN}
  /\ net = <<>>
  /\ ticks = 0
  /\ inputs = 0

\* An entity has been created: by whom, of what type, with what stat block
\* and at what charge.
Made(by, kind, t, stats, cost) ==
  [by |-> by, kind |-> kind, type |-> t, stats |-> stats, charged |-> cost]

\* Game._train_unit: the cost from mod_manager.get_unit_costs, the unit built
\* with _mod_manager = self.mod_manager.
ModTrainUnit ==
  /\ Len(game.made) < MaxMade
  /\ \E t \in UnitTypes :
       LET cost == get_unit_costs(game.mod_manager, t)
       IN  /\ can_afford(game.player_resources, cost)
           /\ game' = [game EXCEPT
                 !.player_resources = spend(@, cost).res,
                 !.made = Append(@, Made("player", "unit", t,
                                         UnitApplyStats(<<game.mod_manager>>, t), cost))]
  /\ UNCHANGED <<net, ticks, inputs>>

\* Game._place_building: the cost from mod_manager.get_building_costs, the
\* building built with _mod_manager = self.mod_manager.
ModPlaceBuilding ==
  /\ Len(game.made) < MaxMade
  /\ \E t \in {"HOUSE", "FARM", "TOWER"} :
       LET cost == get_building_costs(game.mod_manager, t)
       IN  /\ can_afford(game.player_resources, cost)
           /\ game' = [game EXCEPT
                 !.player_resources = spend(@, cost).res,
                 !.made = Append(@, Made("player", "building", t,
                                         BuildingApplyStats(<<game.mod_manager>>, t), cost))]
  /\ UNCHANGED <<net, ticks, inputs>>

\* AIBot._try_train_unit: the cost from UNIT_COSTS, the unit built by
\* Unit(x, y, unit_type, Team.ENEMY), with no _mod_manager.
ModTryTrainUnit ==
  /\ Len(game.made) < MaxMade
  /\ \E t \in UnitTypes :
       LET cost == UNIT_COSTS(t)
       IN  /\ can_afford(game.enemy_resources, cost)
           /\ game' = [game EXCEPT
                 !.enemy_resources = spend(@, cost).res,
                 !.made = Append(@, Made("ai", "unit", t, UnitApplyStats(<< >>, t), cost))]
  /\ UNCHANGED <<net, ticks, inputs>>

\* AIBot._try_build_building: the cost from BUILDING_COSTS, the building built
\* by Building(x, y, building_type, Team.ENEMY), with no _mod_manager.
ModTryBuildBuilding ==
  /\ Len(game.made) < MaxMade
  /\ \E t \in {"HOUSE", "FARM", "TOWER"} :
       LET cost == BUILDING_COSTS(t)
       IN  /\ can_afford(game.enemy_resources, cost)
           /\ game' = [game EXCEPT
                 !.enemy_resources = spend(@, cost).res,
                 !.made = Append(@, Made("ai", "building", t,
                                         BuildingApplyStats(<< >>, t), cost))]
  /\ UNCHANGED <<net, ticks, inputs>>

NextMod ==
  \/ ModTrainUnit
  \/ ModPlaceBuilding
  \/ ModTryTrainUnit
  \/ ModTryBuildBuilding

SpecMod == InitMod /\ [][NextMod]_vars

\* ------------------------------------------------------------ the properties

\* C1: a unit whose health reached <= 0 during a tick is out of the unit list
\* when that tick has ended.
C1_DeadLeaveTheList == \A id \in game.h_died : ~InUnits(game, id)

\* C2: no unit of the list has as target_unit a unit that was removed from the
\* list because its health reached <= 0, now or in any later state.
C2_NoTargetOnRemoved ==
  \A id \in Range(game.units) : U(game, id).target_unit \notin game.h_removed

\* The raider's victim has been removed and the raider, still in the list, has
\* lost it as target.
C2_Witness ==
  /\ 2 \in game.h_removed
  /\ InUnits(game, 10)
  /\ U(game, 10).unit_type = "KNIGHT"
  /\ U(game, 10).target_unit = None

\* C3: no command and no tick ends in an unhandled error, and no unit attacks
\* a building that has left the building list.
C3_NoErrorNoStaleBuilding == Ok(game) /\ ~game.h_stale

\* C4: for every building of the list, count_workers is at most
\* get_max_workers.
C4_WorkersWithinCap ==
  \A bid \in Range(game.buildings) :
     count_workers(game, bid) <= get_max_workers(B(game, bid))

\* C5: gold, food and wood of both factions are >= 0.
C5_ResourcesNonNegative ==
  \A res \in {game.player_resources, game.enemy_resources} :
     res.gold >= 0 /\ res.food >= 0 /\ res.wood >= 0

\* C6: Resources.spend is atomic: when every requested amount is covered all of
\* them are deducted and True is returned; otherwise False is returned and
\* gold, food and wood are unchanged.
C6_SpendAtomic ==
  \A i \in DOMAIN game.h_spend :
     LET c == game.h_spend[i]
     IN  IF \A k \in {"gold", "food", "wood"} : c.before[k] >= CostGet(c.costs, k)
         THEN c.ok /\ \A k \in {"gold", "food", "wood"} :
                        c.after[k] = c.before[k] - CostGet(c.costs, k)
         ELSE ~c.ok /\ c.after = c.before

\* A spend was refused for want of wood though the gold asked for was there,
\* and the gold is untouched.
C6_Witness ==
  \E i \in DOMAIN game.h_spend :
     LET c == game.h_spend[i]
     IN  /\ ~c.ok
         /\ CostGet(c.costs, "gold") > 0
         /\ c.before.gold >= CostGet(c.costs, "gold")
         /\ c.before.wood < CostGet(c.costs, "wood")
         /\ c.after.gold = c.before.gold

C8_FlankGroups ==
  IF game.ai_bot.flanking_active
  THEN Len(game.ai_bot.flank_units_left) >= 2 /\ Len(game.ai_bot.flank_units_right) >= 2
  ELSE game.ai_bot.flank_units_left = <<>> /\ game.ai_bot.flank_units_right = <<>>

\* C9 as stated: whenever army_gathered was set, on any difficulty and path,
\* at least 70% of the military units were within 150 of the rally point.
C9_GatheredOnlyAtRally ==
  \A rec \in game.h_gather : rec.rally # None /\ rec.near * 10 >= rec.total * 7

\* C9, amended: on EASY _setup_attack sets army_gathered with no rally point;
\* on the other difficulties it is set only with at least 70% of the military
\* units within 150 of the rally point.
C9_GatheredAtRallyUnlessEasy ==
  \A rec \in game.h_gather :
     IF rec.difficulty = "EASY" THEN rec.rally = None
     ELSE rec.rally # None /\ rec.near * 10 >= rec.total * 7

\* The army was marked gathered above EASY with five of its six units at the
\* rally point.
C9_Witness ==
  \E rec \in game.h_gather :
     /\ rec.difficulty # "EASY"
     /\ rec.total = 6
     /\ rec.near = 5

\* A Knight's duel with a Peasant that began at full health.
KnightOnPeasant ==
  /\ DOMAIN game.unit = {1, 2}
  /\ U(game, 1).unit_type = "KNIGHT"
  /\ U(game, 2).unit_type = "PEASANT"

\* C10 as stated: after 3 hits of the Knight the Peasant is dead, whatever the
\* jitter.
C10_DeadWithinThreeHits ==
  KnightOnPeasant /\ game.h_hits >= 3 => ~is_alive(U(game, 2))

\* C10, amended: after 4 hits of the Knight the Peasant is dead, whatever the
\* jitter (a hit takes 15 to 22).
C10_DeadWithinFourHits ==
  KnightOnPeasant /\ game.h_hits >= 4 => ~is_alive(U(game, 2))

\* The Peasant survived three hits and fell to the fourth.
C10_Witness ==
  /\ KnightOnPeasant
  /\ game.h_hits = 4
  /\ U(game, 2).health <= 0
  /\ U(game, 2).health > -UNIT_STATS("KNIGHT").attack

\* C11: a building whose health reached <= 0 during a tick is, when that tick
\* has ended, out of the building list, and no unit of the list has it as
\* target_building, assigned_building or constructing_building.
C11_RazedReleased ==
  \A bid \in game.h_razed :
     /\ ~InBuildings(game, bid)
     /\ \A id \in Range(game.units) :
          /\ U(game, id).target_building # bid
          /\ U(game, id).assigned_building # bid
          /\ U(game, id).constructing_building # bid

C13_TowerShots ==
  /\ \A i \in DOMAIN game.h_shots :
       LET shot == game.h_shots[i]
       IN  /\ shot.completed
           /\ shot.workers >= 2
           /\ shot.target_team # B(game, shot.tower).team
           /\ shot.target_dist <= Cm(250)
           /\ \A d \in shot.enemy_dists : shot.target_dist <= d
  /\ \A i, j \in DOMAIN game.h_shots :
       i < j /\ game.h_shots[i].tower = game.h_shots[j].tower
         => game.h_shots[j].at - game.h_shots[i].at >= 120
  /\ Len(SelectSeq(game.projectiles, LAMBDA pr : pr.is_tower_projectile))
       <= Len(game.h_shots)

\* The tower has fired twice, the first time with two enemies at different
\* distances to choose from.
C13_Witness ==
  /\ Len(game.h_shots) >= 2
  /\ Cardinality(game.h_shots[1].enemy_dists) >= 2
  /\ game.h_shots[2].at - game.h_shots[1].at >= 120

\* C14: a unit whose collision circle overlaps a completed building gets the
\* speed multiplier 0.3 from _get_building_collision_slowdown, whatever other
\* buildings it overlaps and whatever the order of the building list.
C14_SlowedByCompleted ==
  \A id \in Range(game.units) :
    LET u == U(game, id)
        OverlapsCompleted(bid) ==
          /\ B(game, bid).completed
          /\ Abs(u.x - B(game, bid).x) <
               get_collision_radius(u) + BuildingSize(B(game, bid).building_type) * 40
    IN  (\E bid \in Range(game.buildings) : OverlapsCompleted(bid))
          => _get_building_collision_slowdown(game, u) = 3

\* C15: on a food-consumption tick a team whose food is less than its living
\* units times FOOD_PER_UNIT ends with food 0 and each of its units has lost
\* exactly STARVATION_DAMAGE; a team that can cover the consumption loses
\* exactly that much food and none of its units is damaged.
C15_FedOrStarved ==
  \A rec \in game.h_food :
    IF rec.food_before < rec.living * FOOD_PER_UNIT
    THEN rec.food_after = 0 /\ rec.lost \subseteq {STARVATION_DAMAGE}
    ELSE /\ rec.food_after = rec.food_before - rec.living * FOOD_PER_UNIT
         /\ rec.lost \subseteq {0}

\* C16: an order to place a building or to train a unit that the player's
\* resources do not cover creates no entity and leaves gold, food and wood as
\* they were.
C16_RefusedWhenUnaffordable ==
  \A rec \in game.h_order :
    ~rec.covered => rec.created = 0 /\ rec.after = rec.before

\* The player has tried to place a house with less gold than it costs, and
\* nothing was built or paid.
C16_Witness ==
  \E rec \in game.h_order :
    /\ rec.kind = "place" /\ rec.type = "HOUSE"
    /\ rec.before.gold < BUILDING_COSTS("HOUSE").gold
    /\ ~rec.covered /\ rec.created = 0 /\ rec.after = rec.before

\* C17: a unit command issued twice or more in succession with the same
\* argument leaves the unit's target and assignment fields as they were after
\* it was issued once.
C17_Idempotent ==
  game.h_issue.count >= 2 => CommandFields(U(game, 2)) = game.h_issue.once

\* A working peasant has been assigned twice running to another building.
C17_Witness ==
  /\ game.h_issue.cmd = "assign_to_building"
  /\ game.h_issue.count >= 2
  /\ U(game, 2).unit_type = "PEASANT"
  /\ U(game, 2).assigned_building = game.h_issue.arg
  /\ U(game, 2).target_x = B(game, game.h_issue.arg).x

\* C18: when a tick has ended the state is GAME_OVER exactly when the building
\* list lacks the castle of at least one team, and once the state is GAME_OVER
\* no later update changes units, buildings, projectiles or resources.
C18_GameOver ==
  /\ [](Ok(game) =>
          (game.state = "GAME_OVER"
             <=> (~HasCastle(game, "PLAYER") \/ ~HasCastle(game, "ENEMY"))))
  /\ [][game.state = "GAME_OVER" =>
          /\ game'.state = "GAME_OVER"
          /\ game'.units = game.units /\ game'.unit = game.unit
          /\ game'.buildings = game.buildings /\ game'.bld = game.bld
          /\ game'.projectiles = game.projectiles
          /\ game'.player_resources = game.player_resources
          /\ game'.enemy_resources = game.enemy_resources]_vars

\* The game has been over for two updates at least: a castle fell on the first
\* update, and a peasant that was walking then has a target still.
C18_Witness ==
  /\ game.state = "GAME_OVER"
  /\ ~HasCastle(game, "PLAYER") \/ ~HasCastle(game, "ENEMY")
  /\ ticks >= 3
  /\ game.now <= 180 + 60
  /\ U(game, 2).target_x # None

\* C19: _deconstruct_building on a castle leaves the building list, every
\* unit and the player's resources as they were, and a castle leaves the
\* building list only with health <= 0.
C19_CastleStands ==
  /\ [](\A rec \in game.h_decon : rec.type = "CASTLE" => rec.same)
  /\ [][\A bid \in Range(game.buildings) :
          (B(game, bid).building_type = "CASTLE" /\ ~InBuildings(game', bid))
            => game'.bld[bid].health <= 0]_vars

\* The player has selected their castle and pressed x, and the castle stands.
C19_Witness ==
  \E rec \in game.h_decon :
    /\ rec.type = "CASTLE" /\ rec.same
    /\ InBuildings(game, rec.uid)
    /\ game.selected_building = rec.uid

\* C20: under every interleaving of the receive loop and get_messages, the
\* messages returned so far, followed by those a call in progress has copied,
\* those in the queue and the one the receive loop is about to append, are the
\* messages received, each once and in arrival order: none is lost or
\* duplicated, and each is returned by one call.
C20_QueueDeliversInOrder ==
  LET copied  == IF net.get_pc \in {"release", "return"} THEN net.messages ELSE <<>>
      arrived == IF net.recv_pc \in {"acquire", "append"} THEN <<net.data>> ELSE <<>>
  IN  /\ net.received = Flat(net.returned) \o copied \o net.message_queue \o arrived
      /\ \A i \in DOMAIN net.received : net.received[i].seq = i

\* Every message of the peer has been returned, by two calls at least that
\* each returned something, and both threads are at rest.
C20_Witness ==
  /\ Len(net.received) = MaxMessages
  /\ Flat(net.returned) = net.received
  /\ Cardinality({i \in DOMAIN net.returned : net.returned[i] # <<>>}) >= 2
  /\ net.get_pc = "idle" /\ net.recv_pc = "receive"

\* C21: the uid counter never decreases, every unit or building that joins a
\* list carries a uid above the counter's value before the step and at most
\* its value after it, and in every state the units and buildings of the
\* lists carry pairwise distinct uids >= 1.
C21_UidsDistinct ==
  /\ [](/\ \A i, j \in DOMAIN game.units : i # j => game.units[i] # game.units[j]
        /\ \A i, j \in DOMAIN game.buildings :
             i # j => game.buildings[i] # game.buildings[j]
        /\ Range(game.units) \cap Range(game.buildings) = {}
        /\ \A id \in Range(game.units) \cup Range(game.buildings) :
             id >= 1 /\ id <= game.uid_counter
        /\ \A id \in Range(game.units) : U(game, id).uid = id
        /\ \A id \in Range(game.buildings) : B(game, id).uid = id)
  /\ [][/\ game'.uid_counter >= game.uid_counter
         /\ \A id \in (Range(game'.units) \cup Range(game'.buildings))
                         \ (Range(game.units) \cup Range(game.buildings)) :
              id > game.uid_counter /\ id <= game'.uid_counter]_vars

\* The lists hold something the player created and something the AI created
\* since the match began (init_game hands out the uids 1 to 10).
C21_Witness ==
  /\ \E id \in Range(game.units) \cup Range(game.buildings) :
       /\ id > 10
       /\ IF InUnits(game, id) THEN U(game, id).team = "PLAYER"
          ELSE B(game, id).team = "PLAYER"
  /\ \E id \in Range(game.units) \cup Range(game.buildings) :
       /\ id > 10
       /\ IF InUnits(game, id) THEN U(game, id).team = "ENEMY"
          ELSE B(game, id).team = "ENEMY"

\* C22: every unit and building created, by the player or by the AI, has the
\* stat block that the mod manager's table gives for its type and is charged
\* the cost that the mod manager's table gives.
C22_ModTablesUsed ==
  \A i \in DOMAIN game.made :
    LET rec == game.made[i]
    IN  IF rec.kind = "unit"
        THEN /\ rec.stats = get_unit_stats(game.mod_manager, rec.type)
             /\ rec.charged = get_unit_costs(game.mod_manager, rec.type)
        ELSE /\ rec.stats = get_building_stats(game.mod_manager, rec.type)
             /\ rec.charged = get_building_costs(game.mod_manager, rec.type)

\* C23: a building that is not completed adds no resources on a resource tick;
\* no peasant has an incomplete building as its assigned building; and a
\* command that gives a unit a building to construct gives it to a peasant,
\* names an incomplete building that is not the enemy's, and leaves the peasant
\* with no assigned building and not working.
C23_IncompleteYieldsNothing ==
  /\ [](/\ \A rec \in game.h_gen : rec.added => rec.completed
        /\ \A id \in Range(game.units) :
             U(game, id).assigned_building # None
               => B(game, U(game, id).assigned_building).completed)
  /\ [][\A id \in Range(game'.units) :
          LET site == game'.unit[id].constructing_building
          IN  (/\ site # None
               /\ id \in Range(game.units)
               /\ game.unit[id].constructing_building # site)
                => /\ game'.unit[id].unit_type = "PEASANT"
                   /\ ~game.bld[site].completed
                   /\ game.bld[site].team # "ENEMY"
                   /\ game'.unit[id].assigned_building = None
                   /\ ~game'.unit[id].is_working]_vars

\* A resource tick has passed an unfinished farm by and has paid for a farm
\* with a peasant at work, and a peasant that had an assigned building has been
\* sent to construct the unfinished farm.
C23_Witness ==
  /\ \E rec \in game.h_gen : ~rec.completed /\ ~rec.added
  /\ \E rec \in game.h_gen : rec.completed /\ rec.added /\ rec.bid = 11
  /\ game.player_resources.food > STARTING_FOOD
  /\ \E id \in Range(game.units) :
       /\ U(game, id).constructing_building # None
       /\ ~B(game, U(game, id).constructing_building).completed
       /\ U(game, id).assigned_building = None
       /\ \E rec \in game.h_cmd : rec.uid = id /\ rec.kind = "construct"

\* C24: only peasants have an assigned building or a building to construct;
\* assign_to_building leaves a unit that is not a peasant as it was, whatever
\* the building, and unassign_from_building leaves a unit with no assigned
\* building and not working.
C24_OnlyPeasantsAssigned ==
  \A id \in Range(game.units) :
    LET u == U(game, id)
    IN  /\ (u.assigned_building # None \/ u.constructing_building # None)
              => u.unit_type = "PEASANT"
        /\ u.unit_type # "PEASANT"
              => \A bid \in Range(game.buildings) : assign_to_building(u, B(game, bid)) = u
        /\ unassign_from_building(u).assigned_building = None
        /\ ~unassign_from_building(u).is_working

\* The player has sent a peasant and a knight together to a completed farm:
\* the peasant is assigned to it, the knight only walks there; the peasant that
\* worked at the farm before was unassigned by the command and assigned again.
C24_Witness ==
  /\ 11 \in Range(game.buildings)
  /\ game.bld[11].building_type = "FARM"
  /\ \E id \in Range(game.units) :
       /\ U(game, id).unit_type = "KNIGHT" /\ U(game, id).team = "PLAYER"
       /\ U(game, id).target_x = B(game, 11).x
       /\ U(game, id).assigned_building = None
  /\ \E id \in Range(game.units) :
       /\ U(game, id).unit_type = "PEASANT"
       /\ U(game, id).assigned_building = 11
       /\ \E rec \in game.h_cmd : rec.kind = "assign" /\ rec.uid # id

\* The place of a mark of h_trace in the order movement, collision, combat,
\* construction, tower targeting, projectile resolution, resource generation,
\* food consumption, healing, win-check, the AI's update and the network
\* messages first; the update of the workers has no place in it.
StageRank(what) ==
  CASE what \in {"ai", "network"} -> 0
    [] what = "move" -> 1
    [] what = "collision" -> 2
    [] what = "damage" -> 3
    [] what = "construction" -> 4
    [] what = "towers" -> 5
    [] what = "projectiles" -> 6
    [] what = "resources" -> 7
    [] what = "food" -> 8
    [] what = "healing" -> 9
    [] what = "game_over" -> 10

C26_RaidedDefends ==
  [][(/\ ticks' = ticks + 1
      /\ game'.ai_bot.think_timer = 0
      /\ my_castle(game) # None
      /\ Cardinality({id \in Range(game.units) :
                        /\ game.unit[id].team = "PLAYER"
                        /\ Abs(game.unit[id].x - game.bld[my_castle(game)].x) < Cm(300)}) >= 2)
       => /\ game'.ai_bot.state = "defending"
          /\ ~game'.ai_bot.flanking_active
          /\ game'.ai_bot.flank_units_left = <<>>
          /\ game'.ai_bot.flank_units_right = <<>>
          /\ game'.ai_bot.main_force_units = <<>>
          /\ game'.ai_bot.rally_point = None
          /\ ~game'.ai_bot.army_gathered]_vars

\* The Brutal AI, whose eight soldiers outnumber the raiders and were split
\* into flanks, has thought with raiders at its castle and now defends it.
C26_Witness ==
  /\ ticks = 1
  /\ game.ai_bot.difficulty = "BRUTAL"
  /\ game.ai_bot.think_timer = 0
  /\ game.ai_bot.state = "defending"
  /\ game.ai_bot.attack_target = Cm(MAP_WIDTH - 300)
  /\ ~game.ai_bot.flanking_active
  /\ Len(military_units(game)) >= 8
  /\ Len(enemy_military_units(game)) = 4

\* C27: on Normal, Hard and Brutal every building the AI creates is created
\* at a moment when each of its buildings that takes workers has all of them.
C27_BuiltWhenStaffed ==
  \A rec \in game.h_built : rec.difficulty # "EASY" => rec.staffed

\* C28: when the AI's orders are carried out, a soldier whose unit target is
\* alive and out of its attack range is given another enemy as target only if
\* that enemy is nearer than 0.6 times the distance to the target it had.
C28_SwitchOnlyIfMuchCloser ==
  [][\A id \in Range(game.units) :
       LET u   == game.unit[id]
           new == game'.unit[id].target_unit
       IN  (/\ u.team = "ENEMY"
            /\ ValidUnit(game, u.target_unit)
            /\ distance_to(u, game.unit[u.target_unit].x) > attack_range(u)
            /\ new # None
            /\ new # u.target_unit)
             => distance_to(u, game.unit[new].x) * 10
                  < distance_to(u, game.unit[u.target_unit].x) * 6]_vars

\* C29: a call of the AI's _try_train_unit or _try_build_building whose cost
\* cannot be paid, or made when the AI has no castle, leaves the unit list, the
\* building list, the uid counter and the AI's resources as they were and
\* raises no error.
C29_BlockedTryChangesNothing ==
  \A rec \in game.h_try :
    (~rec.affordable \/ ~rec.castle) => rec.unchanged /\ rec.error = "NONE"

\* The AI has tried to train a unit it could not pay for, and has tried to
\* build what it could pay for without a castle; or it has been refused a
\* unit and has then built a building.
C29_Witness ==
  \/ /\ \E rec \in game.h_try : rec.what = "train" /\ ~rec.affordable /\ ~rec.castle
     /\ \E rec \in game.h_try : rec.what = "build" /\ rec.affordable /\ ~rec.castle
  \/ /\ \E rec \in game.h_try : rec.what = "train" /\ ~rec.affordable /\ rec.castle
     /\ \E rec \in game.h_try : rec.what = "build" /\ rec.affordable /\ ~rec.unchanged

\* C30: a projectile that has landed is no longer in the projectile list; it
\* takes its damage from its target once or not at all and changes the health
\* of nothing else; when its target unit is dead or its target building
\* destroyed on arrival no health changes; a cannon's projectile that lands on
\* a live target takes its damage from it; and when a cannon fires no health
\* changes.
C30_ProjectileLandsOnce ==
  \A rec \in game.h_ball :
    LET target == IF rec.pr.target_unit # None THEN rec.pr.target_unit
                  ELSE rec.pr.target_building
    IN  IF rec.kind = "fired"
        THEN rec.lost = 0 /\ rec.hurt = {}
        ELSE /\ \A i \in DOMAIN game.projectiles : game.projectiles[i] # rec.pr
             /\ rec.lost \in {0, rec.pr.damage}
             /\ rec.hurt \subseteq {target}
             /\ ~rec.live => rec.hurt = {}
             /\ (rec.live /\ ~rec.pr.is_tower_projectile) => rec.lost = rec.pr.damage

\* A cannon's ball has killed the knight, the ball behind it has landed on the
\* dead knight and another on a razed house, and the cannon has fired again.
C30_Witness ==
  /\ \E rec \in game.h_ball :
       /\ rec.kind = "landed" /\ rec.live /\ ~rec.pr.is_tower_projectile
       /\ rec.lost = rec.pr.damage
       /\ ~is_alive(U(game, rec.pr.target_unit))
  /\ \E rec \in game.h_ball :
       rec.kind = "landed" /\ ~rec.live /\ rec.pr.target_unit # None
  /\ \E rec \in game.h_ball :
       rec.kind = "landed" /\ ~rec.live /\ rec.pr.target_building # None
  /\ \E rec \in game.h_ball : rec.kind = "fired"
  /\ game.projectiles # <<>>

\* C31: a building's build_progress never decreases and stays within 0 and 100
\* percent; it changes only in a tick whose construction stage counts at least
\* one builder within work range; the building is completed exactly when the
\* progress is 100 percent, never reverts, and in the tick that completes it
\* no unit of the list keeps it as its constructing_building.
C31_ProgressOnlyForward ==
  /\ [](/\ \A bid \in DOMAIN game.bld :
             /\ game.bld[bid].build_progress \in 0..(100 * 144)
             /\ game.bld[bid].completed <=> game.bld[bid].build_progress = 100 * 144
        /\ \A v \in game.h_site : v.builders = 0 => v.after = v.before)
  /\ [][\A bid \in DOMAIN game.bld \cap DOMAIN game'.bld :
          /\ game'.bld[bid].build_progress >= game.bld[bid].build_progress
          /\ game.bld[bid].completed => game'.bld[bid].completed
          /\ game'.bld[bid].build_progress # game.bld[bid].build_progress
               => \E v \in game'.h_site :
                     /\ v.uid = bid /\ v.builders > 0
                     /\ v.before = game.bld[bid].build_progress
                     /\ v.after = game'.bld[bid].build_progress
          /\ ~game.bld[bid].completed /\ game'.bld[bid].completed
               => \A id \in Range(game'.units) :
                     game'.unit[id].constructing_building # bid]_vars

\* A site two builders finished in this tick, next to a building placed since
\* that nobody has worked on.
C31_Witness ==
  /\ \E v \in game.h_site :
        v.builders = 2 /\ v.before < 100 * 144 /\ v.completed
  /\ \E bid \in Range(game.buildings) :
        ~B(game, bid).completed /\ B(game, bid).build_progress = 0

\* C32: in the healing loop a unit's health rises only when its team's food
\* is at least heal_food_cost at its turn, and then the food drops by exactly
\* heal_food_cost; a turn with less food changes neither the health nor the
\* food; and no unit's health exceeds its max_health.
C32_HealPaidOrSkipped ==
  /\ \A v \in game.h_heal :
        /\ v.health_after # v.health
             => /\ v.food >= heal_food_cost
                /\ v.food_after = v.food - heal_food_cost
                /\ v.health_after > v.health
        /\ v.health_after = v.health => v.food_after = v.food
        /\ v.food < heal_food_cost
             => v.health_after = v.health /\ v.food_after = v.food
  /\ \A id \in DOMAIN game.unit : game.unit[id].health <= max_health(game.unit[id])

\* A heal tick in which the knight was healed up to its full health, less than
\* heal_amount away, and the food left did not pay for the peasant.
C32_Witness ==
  /\ \E v \in game.h_heal :
        /\ v.health_after = max_health(U(game, v.uid))
        /\ v.health + heal_amount > v.health_after
        /\ v.food_after = v.food - heal_food_cost
  /\ \E v \in game.h_heal :
        /\ v.food < heal_food_cost /\ v.food > 0
        /\ v.health_after = v.health /\ v.health < max_health(U(game, v.uid))

C35_BlowTakesHealth ==
  \A v \in game.h_blow :
     v.unit_type # "CANNON" /\ v.on # "BUILDING" => v.damage >= 1

\* C36: on NORMAL, HARD and BRUTAL, an army that has gathered stays gathered
\* for as long as the AI goes on attacking: over a tick that begins and ends
\* in state attacking (the attack was not cancelled), army_gathered stays
\* true.
C36_GatheredStaysGathered ==
  [][(/\ game.ai_bot.difficulty # "EASY"
      /\ game.ai_bot.state = "attacking" /\ game.ai_bot.army_gathered
      /\ game'.ai_bot.state = "attacking" /\ Ok(game'))
     => game'.ai_bot.army_gathered]_vars

\* C38: the AI's knights, cavalry and cannons in the unit list are never more
\* than the military_cap of its difficulty.
C38_MilitaryWithinCap ==
  Len(military_units(game)) <= DIFFICULTY_SETTINGS(game.ai_bot.difficulty).military_cap

\* The AI defends a standing castle.
Defending == game.ai_bot.state = "defending" /\ my_castle(game) # None

\* The AI has gone back to building, or it has a reason left to defend: a
\* player unit within 400 of its castle, or no castle.
StoodDown ==
  \/ game.ai_bot.state = "building"
  \/ my_castle(game) = None
  \/ \E id \in Range(enemy_units(game)) :
        distance_to(U(game, id), B(game, my_castle(game)).x) < Cm(400)

NoEnemyNear(u) ==
  /\ \A id \in Range(game.units) :
        U(game, id).team # u.team => distance_to(u, U(game, id).x) > attack_range(u) * 4
  /\ \A bid \in Range(game.buildings) :
        B(game, bid).team # u.team => distance_to(u, B(game, bid).x) > attack_range(u) * 2

\* C39: a unit whose last command was a plain move to p and that has come
\* within arrival distance (5) of p, with no enemy near and no attack target,
\* has no move target other than p: it is bound for p, or idle at it.
C39_MoveIsFinal ==
  \A v \in game.h_goal :
     LET u == game.unit[v.uid]
     IN  (/\ InUnits(game, v.uid) /\ distance_to(u, v.x) <= Cm(5)
          /\ u.target_unit = None /\ u.target_building = None /\ NoEnemyNear(u))
         => u.target_x \in {None, v.x}

\* C40: once close() has returned, and until a connection is asked for
\* again, connected is false, no receive loop has been started since, and
\* get_connect_status reports no result, whatever _connect_thread was doing.
C40_ClosedStaysClosed ==
  net.closed =>
    /\ ~net.connected
    /\ net.loops = 0
    /\ get_connect_status(net) = "NONE"

====
